---- MODULE Spec2Model ----
(***************************************************************************)
(* Model of the file discovery and batch import pipeline of nr_helperlib:  *)
(*   src/data_import_tools/import_helpers.py  file_finder, simple_importer,*)
(*                                            file_batch_importer          *)
(*   src/functions/import_helpers.py          check_files, file_finder     *)
(*   src/functions/metadata_generator.py      FolderSearcher               *)
(*   src/functions/import_class.py            DataImporter                 *)
(*   src/functions/main_program_functions.py  divider, diff_maker,         *)
(*                                            rounding_error_dealer        *)
(*                                                                         *)
(* Strings are sequences of one-character tokens, so that lower-casing,    *)
(* integer parsing, formatting and regular-expression search are computed  *)
(* and not assumed.  The token "sup2" stands for the character U+00B2      *)
(* (superscript two): str.isnumeric() accepts it, int() rejects it.        *)
(***************************************************************************)
EXTENDS Integers, Sequences, FiniteSets, TLC

(***************************************************************************)
(* Bounds of the model.                                                    *)
(***************************************************************************)
MaxFiles == 2
MaxTerms == 2
MaxFolders == 2
MaxRows == 3

(***************************************************************************)
(* Characters and strings.                                                 *)
(***************************************************************************)
\* the Python value None where a list of strings is expected
None == << <<"None">> >>

DecimalChars == {"0", "1", "2", "3", "4", "5", "6", "7", "8", "9"}

\* characters str.isnumeric() accepts: the decimal digits and, among
\* others, superscript digits, fractions and CJK numerals
NumericChars == DecimalChars \cup {"sup2"}

DigitVal(c) ==
    CASE c = "0" -> 0 [] c = "1" -> 1 [] c = "2" -> 2 [] c = "3" -> 3
      [] c = "4" -> 4 [] c = "5" -> 5 [] c = "6" -> 6 [] c = "7" -> 7
      [] c = "8" -> 8 [] c = "9" -> 9

DigitChar(n) ==
    CASE n = 0 -> "0" [] n = 1 -> "1" [] n = 2 -> "2" [] n = 3 -> "3"
      [] n = 4 -> "4" [] n = 5 -> "5" [] n = 6 -> "6" [] n = 7 -> "7"
      [] n = 8 -> "8" [] n = 9 -> "9"

\* the characters in use, in code point order
CodePointOrder ==
    <<".", "/", "0", "1", "2", "3", "4", "5", "6", "7", "8", "9", "A", "B", "_",
      "a", "b", "c", "d", "e", "f", "g", "h", "i", "j", "k", "l", "m", "n", "o",
      "p", "q", "r", "s", "t", "u", "v", "w", "x", "y", "z", "|", "sup2">>

\* the rank of a character, used only to order strings as sorted() does
CharOrd(c) == CHOOSE i \in 1..Len(CodePointOrder) : CodePointOrder[i] = c

\* str.lower() on one character
LowerChar(c) ==
    CASE c = "A" -> "a"
      [] c = "B" -> "b"
      [] OTHER -> c

\* str.lower()
Lower(s) == [i \in 1..Len(s) |-> LowerChar(s[i])]

\* s < t for Python strings (lexicographic by code point)
StrLess(s, t) ==
    \E k \in 1..Len(t) :
        /\ k - 1 <= Len(s)
        /\ \A i \in 1..(k - 1) : s[i] = t[i]
        /\ \/ Len(s) = k - 1
           \/ (Len(s) >= k /\ CharOrd(s[k]) < CharOrd(t[k]))

\* sorted(list of str)
Sorted(xs) == SortSeq(xs, StrLess)

\* str.isnumeric()
isnumeric(s) == Len(s) > 0 /\ \A i \in 1..Len(s) : s[i] \in NumericChars

\* int(s) succeeds (s holds no sign, blank or underscore here)
IntParses(s) == Len(s) > 0 /\ \A i \in 1..Len(s) : s[i] \in DecimalChars

\* int(s), base 10
RECURSIVE ParseInt(_)
ParseInt(s) ==
    IF s = <<>> THEN 0
    ELSE 10 * ParseInt(SubSeq(s, 1, Len(s) - 1)) + DigitVal(s[Len(s)])

\* str(n) for n >= 0
RECURSIVE FormatInt(_)
FormatInt(n) ==
    IF n < 10 THEN <<DigitChar(n)>>
    ELSE FormatInt(n \div 10) \o <<DigitChar(n % 10)>>

\* s.split('/')
RECURSIVE SplitSlash(_)
SplitSlash(s) ==
    IF \A i \in 1..Len(s) : s[i] # "/" THEN <<s>>
    ELSE LET k == CHOOSE i \in 1..Len(s) :
                    s[i] = "/" /\ \A j \in 1..(i - 1) : s[j] # "/"
         IN <<SubSeq(s, 1, k - 1)>> \o SplitSlash(SubSeq(s, k + 1, Len(s)))

Range(f) == {f[i] : i \in DOMAIN f}

\* all sequences over S of length lo..hi
SeqsOf(S, lo, hi) == UNION {[1..n -> S] : n \in lo..hi}

RECURSIVE SetToSeq(_)
SetToSeq(S) ==
    IF S = {} THEN <<>>
    ELSE LET x == CHOOSE y \in S : TRUE
         IN <<x>> \o SetToSeq(S \ {x})

(***************************************************************************)
(* '|'.join(terms) and Series.str.contains(pattern): a regular-expression  *)
(* search.  Over the characters used here the pattern language is:         *)
(* '|' separates alternatives, '.' matches any one character, every other  *)
(* character matches itself.                                               *)
(***************************************************************************)
RECURSIVE JoinBar(_)
JoinBar(terms) ==
    IF terms = <<>> THEN <<>>
    ELSE IF Len(terms) = 1 THEN terms[1]
    ELSE terms[1] \o <<"|">> \o JoinBar(Tail(terms))

\* the alternatives of a pattern: the pieces between the '|' characters
RECURSIVE Alternatives(_)
Alternatives(pat) ==
    IF \A i \in 1..Len(pat) : pat[i] # "|" THEN {pat}
    ELSE LET k == CHOOSE i \in 1..Len(pat) :
                    pat[i] = "|" /\ \A j \in 1..(i - 1) : pat[j] # "|"
         IN {SubSeq(pat, 1, k - 1)} \cup Alternatives(SubSeq(pat, k + 1, Len(pat)))

\* one alternative matches s at offset i
MatchAt(alt, s, i) ==
    /\ i + Len(alt) <= Len(s)
    /\ \A k \in 1..Len(alt) : alt[k] = "." \/ alt[k] = s[i + k]

\* re.search(pat, s) is not None
RegexSearch(pat, s) ==
    \E alt \in Alternatives(pat) : \E i \in 0..Len(s) : MatchAt(alt, s, i)

\* t in s, for Python strings (plain substring)
IsSubstring(t, s) ==
    \E i \in 0..Len(s) :
        /\ i + Len(t) <= Len(s)
        /\ \A k \in 1..Len(t) : t[k] = s[i + k]

(***************************************************************************)
(* A directory on disk is [entries, files]: the names of its entries in    *)
(* the order os.listdir returns them (any order), and which of them are    *)
(* regular files; the other entries are sub-directories.                   *)
(***************************************************************************)
listdir(d) == d.entries

\* data_import_tools: keeps the entries that are regular files, as names
check_files(d) ==
    LET isfile(n) == n \in d.files IN SelectSeq(listdir(d), isfile)

\* [str(n).lower() for n in filter_clauses]
LowerAll(terms) == [i \in 1..Len(terms) |-> Lower(terms[i])]

\* the rows of a string column that the pattern is found in
RECURSIVE StrContains(_, _)
StrContains(xs, pat) ==
    IF xs = <<>> THEN <<>>
    ELSE (IF RegexSearch(pat, Head(xs)) THEN <<Head(xs)>> ELSE <<>>)
            \o StrContains(Tail(xs), pat)

\* file_finder_filtered with the mask taken on the lower-cased names but
\* applied to the names as found on disk
file_finder_filtered_keepcase(all_files, filter_clauses) ==
    LET clauses == LowerAll(filter_clauses)
        Hit(n) == RegexSearch(JoinBar(clauses), Lower(n))
    IN Sorted(SelectSeq(all_files, Hit))

\* the else branch of file_finder: lower, filter by regex, sort
file_finder_filtered(all_files, filter_clauses) ==
    LET clauses == LowerAll(filter_clauses)
        lowered == [i \in 1..Len(all_files) |-> Lower(all_files[i])]
    IN Sorted(StrContains(lowered, JoinBar(clauses)))

file_finder(d, filter_clauses) ==
    IF filter_clauses = None THEN check_files(d)
    ELSE file_finder_filtered(check_files(d), filter_clauses)

(***************************************************************************)
(* The tree under the root path of a FolderSearcher.  A disk is            *)
(*   [exists, listing, tree]: whether the root exists, its immediate       *)
(* sub-directories in the order os.walk lists them, and the content of     *)
(* each.  Names on disk are matched exactly (POSIX: case-sensitive).       *)
(***************************************************************************)
RootPath == <<"r">>

Ok(v) == [err |-> "none", ret |-> v]
Raise(e) == [err |-> e, ret |-> <<>>]

ErrPathMissing == "ValueError: Input path does not exist."
ErrIntLiteral  == "ValueError: invalid literal for int() with base 10"
ErrPathName    == "NameError: name 'Path' is not defined"
ErrNoDirectory == "FileNotFoundError"
ErrNoResults   == "AssertionError: Search terms in dataset_list yielded no results. Please revise search terms."
ErrNoTable     == "AttributeError: 'FolderSearcher' object has no attribute 'metadata_df'"

\* f'{self.path}/{year}' and f'{self.path}/{year}/{file}'
FolderPath(year_text) == RootPath \o <<"/">> \o year_text
FilePath(year_text, file) == FolderPath(year_text) \o <<"/">> \o file

\* the directory a path string names, if the disk has one
IsDirOnDisk(disk, p) ==
    LET parts == SplitSlash(p)
    IN /\ disk.exists
       /\ Len(parts) = 2
       /\ parts[1] = RootPath
       /\ parts[2] \in DOMAIN disk.tree

\* the path string names a regular file of the disk
IsFileOnDisk(disk, p) ==
    LET parts == SplitSlash(p)
    IN /\ disk.exists
       /\ Len(parts) = 3
       /\ parts[1] = RootPath
       /\ parts[2] \in DOMAIN disk.tree
       /\ parts[3] \in disk.tree[parts[2]].files

\* data_import_tools.import_helpers.file_finder on a path: os.listdir
\* raises for a directory that does not exist
file_finder_at(disk, p, filter_clauses) ==
    IF ~IsDirOnDisk(disk, p) THEN Raise(ErrNoDirectory)
    ELSE Ok(file_finder(disk.tree[SplitSlash(p)[2]], filter_clauses))

\* functions.import_helpers.check_files: the module uses the name Path and
\* never imports it, so the call raises before it lists anything
functions_check_files(disk, p) == Raise(ErrPathName)

\* functions.import_helpers.file_finder
functions_file_finder(disk, p, filter_clauses) ==
    LET all_files == functions_check_files(disk, p)
    IN IF all_files.err # "none" THEN all_files
       ELSE IF filter_clauses = None THEN all_files
       ELSE Ok(file_finder_filtered(all_files.ret, filter_clauses))

(***************************************************************************)
(* FolderSearcher (functions/metadata_generator.py).                       *)
(* metadata_generator imports logic_helpers, utility_module and            *)
(* import_helpers from the package src.functions; the first two exist only *)
(* under data_import_tools, so which import_helpers module backs a         *)
(* FolderSearcher depends on how the package is laid out.  helpers says    *)
(* which one: "functions" or "data_import_tools".                          *)
(***************************************************************************)
HelperPackages == {"functions", "data_import_tools"}

imported_file_finder(helpers, disk, p, filter_clauses) ==
    IF helpers = "functions" THEN functions_file_finder(disk, p, filter_clauses)
    ELSE file_finder_at(disk, p, filter_clauses)

\* a Python value of the folder list, with its rendering in an f-string
PyStr(s) == [ty |-> "str", text |-> s]
PyInt(n) == [ty |-> "int", text |-> FormatInt(n)]

Texts(pyvals) == [i \in 1..Len(pyvals) |-> pyvals[i].text]

\* FolderSearcher.read_folders: tuple(next(os.walk(self.path))[1])
read_folders(disk) ==
    IF ~disk.exists THEN Raise(ErrPathMissing) ELSE Ok(disk.listing)

\* YearsInRange without the test against stop_year
RECURSIVE YearsInRange_from_start(_, _, _)
YearsInRange_from_start(names, start_year, stop_year) ==
    IF names = <<>> THEN <<>>
    ELSE LET n == ParseInt(Head(names))
         IN (IF n >= start_year THEN <<PyInt(n)>> ELSE <<>>)
                \o YearsInRange_from_start(Tail(names), start_year, stop_year)

\* the rows of an int Series with start_year <= n <= stop_year
RECURSIVE YearsInRange(_, _, _)
YearsInRange(names, start_year, stop_year) ==
    IF names = <<>> THEN <<>>
    ELSE LET n == ParseInt(Head(names))
         IN (IF n >= start_year /\ n <= stop_year THEN <<PyInt(n)>> ELSE <<>>)
                \o YearsInRange(Tail(names), start_year, stop_year)

\* FolderSearcher.__filter_years
filter_years(use_numeric_folders, file_list, start_year, stop_year) ==
    IF ~use_numeric_folders
    THEN Ok([i \in 1..Len(file_list) |-> PyStr(file_list[i])])
    ELSE IF \E i \in 1..Len(file_list) : ~IntParses(file_list[i])
    THEN Raise(ErrIntLiteral)
    ELSE Ok(YearsInRange(file_list, start_year, stop_year))

\* FolderSearcher.__check_numeric_folders
check_numeric_folders(use_numeric_folders, list_of_folders, start_year, stop_year) ==
    LET numeric_folders == SelectSeq(list_of_folders, isnumeric)
    IN filter_years(use_numeric_folders, numeric_folders, start_year, stop_year)

\* the loop of FolderSearcher.__read_filepaths: [err, filepaths, searched]
RECURSIVE read_filepaths_loop(_, _, _, _, _, _)
read_filepaths_loop(helpers, disk, dataset_list, folders, filepaths, searched) ==
    IF folders = <<>>
    THEN [err |-> "none", filepaths |-> filepaths, searched |-> searched]
    ELSE LET year  == Head(folders).text
             found == imported_file_finder(helpers, disk, FolderPath(year), dataset_list)
         IN IF found.err # "none"
            THEN [err |-> found.err, filepaths |-> filepaths,
                  searched |-> Append(searched, FolderPath(year))]
            ELSE read_filepaths_loop(helpers, disk, dataset_list, Tail(folders),
                    filepaths \o [i \in 1..Len(found.ret) |-> FilePath(year, found.ret[i])],
                    Append(searched, FolderPath(year)))

\* FolderSearcher.__string_clipper with a negative elem_num
string_clipper(path, elem_num) ==
    LET parts == SplitSlash(path) IN parts[Len(parts) + 1 + elem_num]

\* the table FolderSearcher.__generate_metadata_df makes of the file paths
metadata_rows(filepaths) ==
    [i \in 1..Len(filepaths) |->
        [path      |-> filepaths[i],
         filename  |-> string_clipper(filepaths[i], -1),
         directory |-> string_clipper(filepaths[i], -2)]]

\* FolderSearcher.generate_metadata: the attributes of self after the call
\* and how the call ended
generate_metadata(helpers, disk, self) ==
    LET folders == read_folders(disk)
        s1 == [self EXCEPT !.filepaths = <<>>]
    IN IF folders.err # "none" THEN [self |-> s1, status |-> folders.err, searched |-> <<>>]
       ELSE
         LET s2 == [s1 EXCEPT !.list_of_folders = folders.ret,
                              !.folder_list = [i \in 1..Len(folders.ret) |-> PyStr(folders.ret[i])]]
             numeric == IF self.use_numeric_folders
                        THEN check_numeric_folders(self.use_numeric_folders, folders.ret,
                                                   self.start_year, self.stop_year)
                        ELSE Ok(s2.folder_list)
         IN IF numeric.err # "none" THEN [self |-> s2, status |-> numeric.err, searched |-> <<>>]
            ELSE
              LET s3 == [s2 EXCEPT !.folder_list = numeric.ret]
                  loop == read_filepaths_loop(helpers, disk, self.dataset_list,
                                              numeric.ret, <<>>, <<>>)
                  s4 == [s3 EXCEPT !.filepaths = loop.filepaths]
              IN IF loop.err # "none"
                 THEN [self |-> s4, status |-> loop.err, searched |-> loop.searched]
                 ELSE IF Len(loop.filepaths) <= 0
                 THEN [self |-> s4, status |-> ErrNoResults, searched |-> loop.searched]
                 ELSE [self |-> [s4 EXCEPT !.metadata_df = metadata_rows(loop.filepaths),
                                           !.has_df = TRUE],
                       status |-> "ok", searched |-> loop.searched]

\* subset_datasets as a plain filter: the rows outside the group are lost
subset_datasets_plain_filter(metadata_df, groups, keep_vals) ==
    LET InSubset(row) == /\ RegexSearch(JoinBar(groups), row.filename)
                         /\ RegexSearch(JoinBar(keep_vals), row.directory)
    IN SelectSeq(metadata_df, InSubset)

\* FolderSearcher.subset_datasets on the table (group_col = filename,
\* val_col = directory)
subset_datasets(metadata_df, groups, keep_vals) ==
    LET InGroup(row) == RegexSearch(JoinBar(groups), row.filename)
        InSubset(row) == InGroup(row) /\ RegexSearch(JoinBar(keep_vals), row.directory)
        NotInGroup(row) == ~InGroup(row)
    IN SelectSeq(metadata_df, NotInGroup) \o SelectSeq(metadata_df, InSubset)

(***************************************************************************)
(* The importers (import_helpers.py).  The pandas readers are outside the  *)
(* repository: a reader returns the table stored at a path that names a    *)
(* regular file and raises FileNotFoundError for any other path.  A table  *)
(* is [source, columns, aar, aar_added]: the file it was read from, its    *)
(* column names and the values of its 'aar' and 'aar_added' columns, if it *)
(* was given them.                                                         *)
(* A dict is the sequence of its [key, val] items in insertion order.      *)
(***************************************************************************)
csv      == <<"c", "s", "v">>
txt      == <<"t", "x", "t">>
sas7bdat == <<"s", "a", "s", "7", "b", "d", "a", "t">>
parquet  == <<"p", "a", "r", "q", "u", "e", "t">>
xlsx     == <<"x", "l", "s", "x">>
xls      == <<"x", "l", "s">>

allowed_filetypes == <<csv, txt, sas7bdat, parquet, xlsx, xls>>

\* the Python value None where a string is expected
NoneStr == <<"None">>

ErrFiletype    == "AssertionError: Filetype specified not allowed. Allowed filetypes: ['csv', 'txt', 'sas7bdat', 'parquet', 'xlsx', 'xls']"
ErrListItems   == "AttributeError: 'list' object has no attribute 'items'"
ErrFileMissing == "FileNotFoundError: No such file or directory"
ErrArgCount    == "TypeError: file_finder() takes from 1 to 2 positional arguments but 3 were given"

MsgFiletypes == "Supported filetypes for data import are csv, parquet, sas7bdat, txt, xls and xlsx. Please specify which one of these you want to import."
MsgNoFiles   == "Error: No sas-files found in working directory"
MsgYears     == "Error: Amount of years added not equal to amount of files collected for import."

\* the column names of the data files, as stored
DataHeader == << <<"A">>, <<"b">> >>

\* how a call ended: the exception raised or the value returned, the files
\* it read, in order, and the messages it printed
Returned(kind, v, reads, printed) ==
    [err |-> "none", kind |-> kind, ret |-> v, reads |-> reads, printed |-> printed]
Raised(e, reads, printed) ==
    [err |-> e, kind |-> "raised", ret |-> <<>>, reads |-> reads, printed |-> printed]

\* pd.read_csv, pd.read_sas, pd.read_excel, pd.read_parquet on a path
read_table(disk, p) ==
    IF IsFileOnDisk(disk, p)
    THEN Ok([source |-> p, columns |-> DataHeader, aar |-> <<>>, aar_added |-> <<>>])
    ELSE Raise(ErrFileMissing)

\* df.rename(columns=lambda x: x.lower()); df.columns.str.lower()
lower_columns(t) == [t EXCEPT !.columns = LowerAll(@)]

\* df['aar'] = year
set_aar(t, year) ==
    [t EXCEPT !.aar = <<year>>,
              !.columns = IF <<"a", "a", "r">> \in Range(@) THEN @
                          ELSE Append(@, <<"a", "a", "r">>)]

DictHas(d, k) == \E i \in 1..Len(d) : d[i].key = k
DictGet(d, k) == d[CHOOSE i \in 1..Len(d) : d[i].key = k].val

\* d[k] = v
DictPut(d, k, v) ==
    IF DictHas(d, k)
    THEN [i \in 1..Len(d) |-> IF d[i].key = k THEN [key |-> k, val |-> v] ELSE d[i]]
    ELSE Append(d, [key |-> k, val |-> v])

\* Series.unique(): the distinct values in order of first appearance
RECURSIVE unique(_)
unique(xs) ==
    IF xs = <<>> THEN <<>>
    ELSE LET init == unique(SubSeq(xs, 1, Len(xs) - 1))
             last == xs[Len(xs)]
         IN IF last \in Range(init) THEN init ELSE Append(init, last)

\* dict(zip(row_subset[file_col], row_subset[path_col]))
RECURSIVE zip_dict(_)
zip_dict(rows) ==
    IF rows = <<>> THEN <<>>
    ELSE LET last == rows[Len(rows)]
         IN DictPut(zip_dict(SubSeq(rows, 1, Len(rows) - 1)), last.filename, last.path)

\* {filename: reader(path) for filename, path in file_path_dict.items()}:
\* [err, ret, reads]
RECURSIVE read_items(_, _, _, _)
read_items(disk, items, folder_dict, reads) ==
    IF items = <<>> THEN [err |-> "none", ret |-> folder_dict, reads |-> reads]
    ELSE LET t == read_table(disk, Head(items).val)
         IN IF t.err # "none"
            THEN [err |-> t.err, ret |-> folder_dict, reads |-> reads]
            ELSE read_items(disk, Tail(items),
                            DictPut(folder_dict, Head(items).key, t.ret),
                            Append(reads, Head(items).val))

\* [reader(path) for path in paths]: [err, ret, reads]
RECURSIVE read_list(_, _, _, _)
read_list(disk, paths, tables, reads) ==
    IF paths = <<>> THEN [err |-> "none", ret |-> tables, reads |-> reads]
    ELSE LET t == read_table(disk, Head(paths))
         IN IF t.err # "none"
            THEN [err |-> t.err, ret |-> tables, reads |-> reads]
            ELSE read_list(disk, Tail(paths), Append(tables, t.ret),
                           Append(reads, Head(paths)))

\* the renaming comprehension of simple_importer over a dict of dicts
lower_nested(data_dict) ==
    [i \in 1..Len(data_dict) |->
        [key |-> data_dict[i].key,
         val |-> [j \in 1..Len(data_dict[i].val) |->
                    [key |-> data_dict[i].val[j].key,
                     val |-> lower_columns(data_dict[i].val[j].val)]]]]

\* the loop of simple_importer over df[dir_col].unique()
RECURSIVE simple_importer_loop(_, _, _, _, _, _)
simple_importer_loop(disk, df, filetype, directories, data_dict, reads) ==
    IF directories = <<>> THEN Returned("nested", data_dict, reads, <<>>)
    ELSE
      LET directory == Head(directories)
          InDirectory(row) == row.directory = directory
          row_subset == SelectSeq(df, InDirectory)
          file_path_dict == zip_dict(row_subset)
      IN IF filetype = parquet
         THEN \* the branch stores a list; the renaming step asks it for .items()
              LET tables == read_list(disk, [i \in 1..Len(df) |-> df[i].path], <<>>, reads)
              IN IF tables.err # "none" THEN Raised(tables.err, tables.reads, <<>>)
                 ELSE Raised(ErrListItems, tables.reads, <<>>)
         ELSE LET folder == read_items(disk, file_path_dict, <<>>, reads)
              IN IF folder.err # "none" THEN Raised(folder.err, folder.reads, <<>>)
                 ELSE simple_importer_loop(disk, df, filetype, Tail(directories),
                        lower_nested(DictPut(data_dict, directory, folder.ret)),
                        folder.reads)

\* simple_importer(df, filetype=filetype): the same code in both packages
simple_importer(disk, df, filetype) ==
    IF filetype \notin Range(allowed_filetypes) THEN Raised(ErrFiletype, <<>>, <<>>)
    ELSE simple_importer_loop(disk, df, filetype,
                              unique([i \in 1..Len(df) |-> df[i].directory]), <<>>, <<>>)

\* a positional filter clause: a string or a list of strings
StrClause(text) == [ty |-> "str", text |-> text, items |-> <<>>]
ListClause(items) == [ty |-> "list", text |-> <<>>, items |-> items]

\* what iterating over a clause yields: the characters of a string, the
\* items of a list
IterClause(clause) ==
    IF clause.ty = "str" THEN [i \in 1..Len(clause.text) |-> <<clause.text[i]>>]
    ELSE clause.items

\* file_identifier_func(folder_path, *filter_clauses) with file_finder: the
\* clauses are unpacked into the positional parameters of file_finder, which
\* has one parameter after folder_path
file_identifier_func(disk, folder_path, filter_clauses) ==
    IF Len(filter_clauses) > 1 THEN Raise(ErrArgCount)
    ELSE IF Len(filter_clauses) = 0 THEN file_finder_at(disk, folder_path, None)
    ELSE file_finder_at(disk, folder_path, IterClause(filter_clauses[1]))

\* list(np.arange(year_start, year_stop + 1))
arange(year_start, year_stop) ==
    [i \in 1..(IF year_stop >= year_start THEN year_stop - year_start + 1 ELSE 0)
        |-> year_start + i - 1]

\* the import loop of file_batch_importer: [err, df_list, df_dict, reads]
RECURSIVE batch_import_loop(_, _, _, _, _, _, _, _, _)
batch_import_loop(disk, folder_path, files_found, files_for_import, store_as, todo, j, acc, reads) ==
    IF todo = 0
    THEN [err |-> "none", df_list |-> acc.df_list, df_dict |-> acc.df_dict, reads |-> reads]
    ELSE LET p == folder_path \o <<"/">> \o files_found[j + 1]
             read == read_table(disk, p)
         IN IF read.err # "none"
            THEN [err |-> read.err, df_list |-> acc.df_list, df_dict |-> acc.df_dict,
                  reads |-> reads]
            ELSE LET temp_df == lower_columns(read.ret)
                 IN IF store_as \in {"list", "df"}
                    THEN batch_import_loop(disk, folder_path, files_found, files_for_import,
                            store_as, todo - 1, j + 1,
                            [acc EXCEPT !.df_list = Append(@, temp_df)], Append(reads, p))
                    ELSE IF store_as = "dict"
                    THEN batch_import_loop(disk, folder_path, files_found, files_for_import,
                            store_as, todo - 1, j + 1,
                            [acc EXCEPT !.df_dict = DictPut(@, files_for_import[j + 1], temp_df)],
                            Append(reads, p))
                    ELSE batch_import_loop(disk, folder_path, files_found, files_for_import,
                            store_as, todo - 1, j, acc, Append(reads, p))

\* the value file_batch_importer returns for a store_as setting
batch_return(store_as, df_list, df_dict, reads) ==
    IF store_as = "df" THEN Returned("df", df_list, reads, <<>>)    \* pd.concat(df_list)
    ELSE IF store_as = "list" THEN Returned("list", df_list, reads, <<>>)
    ELSE IF store_as = "dict" THEN Returned("dict", df_dict, reads, <<>>)
    ELSE Returned("None", <<>>, reads, <<>>)

\* file_batch_importer(folder_path, *filter_clauses, filetype=..., ...)
file_batch_importer(disk, folder_path, filter_clauses, filetype, attach_years, year_start, year_stop, store_as) ==
    IF filetype \notin Range(allowed_filetypes)
    THEN Returned("None", <<>>, <<>>, <<MsgFiletypes>>)
    ELSE
      LET found == file_identifier_func(disk, folder_path, filter_clauses)
      IN IF found.err # "none" THEN Raised(found.err, <<>>, <<>>)
         ELSE
           LET files_found == found.ret
               HasFiletype(elem) == IsSubstring(filetype, elem)
               files_for_import == SelectSeq(files_found, HasFiletype)
           IN IF Len(files_for_import) = 0
              THEN Returned("None", <<>>, <<>>, <<MsgNoFiles>>)
              ELSE
                LET loop == batch_import_loop(disk, folder_path, files_found,
                                files_for_import, store_as, Len(files_for_import), 0,
                                [df_list |-> <<>>, df_dict |-> <<>>], <<>>)
                    years == arange(year_start, year_stop)
                IN IF loop.err # "none" THEN Raised(loop.err, loop.reads, <<>>)
                   ELSE IF ~attach_years
                   THEN batch_return(store_as, loop.df_list, loop.df_dict, loop.reads)
                   ELSE IF store_as \in {"list", "df"}
                   THEN IF Len(years) # Len(loop.df_list)
                        THEN Returned("None", <<>>, loop.reads, <<MsgYears>>)
                        ELSE batch_return(store_as,
                                [y \in 1..Len(loop.df_list) |-> set_aar(loop.df_list[y], years[y])],
                                loop.df_dict, loop.reads)
                   ELSE IF store_as = "dict"
                   THEN IF Len(years) # Len(loop.df_dict)
                        THEN Returned("None", <<>>, loop.reads, <<MsgYears>>)
                        ELSE batch_return(store_as, loop.df_list,
                                [y \in 1..Len(loop.df_dict) |->
                                    [key |-> loop.df_dict[y].key,
                                     val |-> set_aar(loop.df_dict[y].val, years[y])]],
                                loop.reads)
                   ELSE batch_return(store_as, loop.df_list, loop.df_dict, loop.reads)

(***************************************************************************)
(* DataImporter (functions/import_class.py).                               *)
(***************************************************************************)
aar_added == <<"a", "a", "r", "_", "a", "d", "d", "e", "d">>

ErrNoFolderDict == "AttributeError: 'DataImporter' object has no attribute 'folder_dict'"

MsgNotNumeric == "Error: Sub-directory names containing raw data cannot be interpeted as numbers."

\* temp_dict[dataframe]['aar_added'] = year
set_aar_added(t, year) ==
    [t EXCEPT !.aar_added = <<year>>,
              !.columns = IF aar_added \in Range(@) THEN @ ELSE Append(@, aar_added)]

\* add_years stamping every table with the first directory key
add_years_first_key(folder_dict) ==
    [err |-> "none", printed |-> <<>>,
     folder_dict |->
        [i \in 1..Len(folder_dict) |->
            [key |-> folder_dict[i].key,
             val |-> [j \in 1..Len(folder_dict[i].val) |->
                        [key |-> folder_dict[i].val[j].key,
                         val |-> set_aar_added(folder_dict[i].val[j].val,
                                               folder_dict[1].key)]]]]]

\* DataImporter.add_years on folder_dict: [err, printed, folder_dict].
\* pd.Series(list of str) raises no ValueError, so the except branch and
\* its message are never taken.
add_years(folder_dict) ==
    [err |-> "none", printed |-> <<>>,
     folder_dict |->
        [i \in 1..Len(folder_dict) |->
            [key |-> folder_dict[i].key,
             val |-> [j \in 1..Len(folder_dict[i].val) |->
                        [key |-> folder_dict[i].val[j].key,
                         val |-> set_aar_added(folder_dict[i].val[j].val,
                                               folder_dict[i].key)]]]]]

ErrNoCategory == "AssertionError: No categories matching imported data found in dataset_list. Please revise dataset_list items."
ErrUnbound    == "UnboundLocalError: local variable 'error_msg' referenced before assignment"
ErrKeyAarAdded == "KeyError: 'aar_added'"

\* k.startswith(kw_list_item)
startswith(k, kw_list_item) ==
    /\ Len(kw_list_item) <= Len(k)
    /\ SubSeq(k, 1, Len(kw_list_item)) = kw_list_item

\* pd.concat(rearanged_dict) of one directory: the tables whose key starts
\* with the keyword, each a part tagged with its key
rearanged_dict(folder, kw_list_item) ==
    LET Starts(item) == startswith(item.key, kw_list_item)
        kept == SelectSeq(folder, Starts)
    IN [i \in 1..Len(kept) |-> [filename |-> kept[i].key, table |-> kept[i].val]]

\* p goes before q under sort_values('aar_added'); a missing value goes last
YearBefore(p, q) ==
    /\ p.table.aar_added # <<>>
    /\ \/ q.table.aar_added = <<>>
       \/ StrLess(p.table.aar_added[1], q.table.aar_added[1])

\* sort_values('aar_added') over the parts of a concatenated table
RECURSIVE sort_by_year(_)
sort_by_year(parts) ==
    IF parts = <<>> THEN <<>>
    ELSE LET init == sort_by_year(SubSeq(parts, 1, Len(parts) - 1))
             last == parts[Len(parts)]
             Before(q) == ~YearBefore(last, q)
             After(q) == YearBefore(last, q)
         IN SelectSeq(init, Before) \o <<last>> \o SelectSeq(init, After)

\* the loop of categorise_data over folder_dict.items() for one keyword:
\* [err, storage_dict]
RECURSIVE categorise_folders(_, _, _, _)
categorise_folders(folders, kw_list_item, df_list, storage_dict) ==
    IF folders = <<>> THEN [err |-> "none", storage_dict |-> storage_dict]
    ELSE LET df == rearanged_dict(Head(folders).val, kw_list_item)
         IN IF Len(df) = 0
            THEN categorise_folders(Tail(folders), kw_list_item, df_list, storage_dict)
            ELSE LET all == df_list \o df
                 IN IF \A i \in 1..Len(all) : all[i].table.aar_added = <<>>
                    THEN [err |-> ErrKeyAarAdded, storage_dict |-> storage_dict]
                    ELSE categorise_folders(Tail(folders), kw_list_item, all,
                            DictPut(storage_dict, kw_list_item, sort_by_year(all)))

\* the loop of categorise_data over dataset_list: [err, storage_dict].  The
\* emptiness test of storage_dict runs after every keyword; error_msg is
\* assigned inside the loop over the directories.
RECURSIVE categorise_keywords(_, _, _)
categorise_keywords(folder_dict, dataset_list, storage_dict) ==
    IF dataset_list = <<>> THEN [err |-> "none", storage_dict |-> storage_dict]
    ELSE LET r == categorise_folders(folder_dict, Head(dataset_list), <<>>, storage_dict)
         IN IF r.err # "none" THEN r
            ELSE IF Len(r.storage_dict) = 0
            THEN [err |-> IF folder_dict = <<>> THEN ErrUnbound ELSE ErrNoCategory,
                  storage_dict |-> r.storage_dict]
            ELSE categorise_keywords(folder_dict, Tail(dataset_list), r.storage_dict)

\* DataImporter.categorise_data(dataset_list=dataset_list)
categorise_data(folder_dict, dataset_list) ==
    categorise_keywords(folder_dict, dataset_list, <<>>)

(***************************************************************************)
(* src/functions/main_program_functions.py: divider, diff_maker and        *)
(* rounding_error_dealer.  A table is a record of columns, each a sequence *)
(* over the row positions 1..n; index holds the row labels.  A float64     *)
(* value is the fraction it rounds, [num, den] in lowest terms with        *)
(* den > 0, and NaN is the fraction with den = 0.  merge(..., on=year_col) *)
(* gives its result the row labels 0..n-1 and keeps the rows of a table    *)
(* whose equal years are adjacent in their order.                          *)
(***************************************************************************)
year_col == "aar"
total_fee_col == "total_avgift_kroner"
estimated_fee_col == "est_avgift_kroner"

ErrNrNaaring == "KeyError: \"['nr_naaring'] not in index\""
ErrUnalignable == "IndexingError: Unalignable boolean Series provided as indexer (index of the boolean Series and of the indexed object do not match)."
ErrCast == "UFuncTypeError: Cannot cast ufunc 'divide' output from dtype('float64') to dtype('int64') with casting rule 'same_kind'"

NaN == [num |-> 0, den |-> 0]

Abs(n) == IF n < 0 THEN 0 - n ELSE n

RECURSIVE GCD(_, _)
GCD(a, b) == IF b = 0 THEN a ELSE GCD(b, a % b)

\* the float64 value n / d, d > 0
Frac(n, d) == LET g == GCD(Abs(n), d) IN [num |-> n \div g, den |-> d \div g]

\* an int64 value converted to float64
FracOfInt(n) == [num |-> n, den |-> 1]

FracAdd(a, b) == Frac(a.num * b.den + b.num * a.den, a.den * b.den)

\* np.divide(x, y) of two integers, y # 0
true_divide(x, y) == IF y < 0 THEN Frac(0 - x, 0 - y) ELSE Frac(x, y)

\* np.divide of a float64 value by a count n > 0
FracDiv(a, n) == IF a = NaN THEN NaN ELSE Frac(a.num, a.den * n)

\* df[name]
Col(df, name) ==
    IF name = year_col THEN df.aar
    ELSE IF name = total_fee_col THEN df.total
    ELSE df.est

\* groupby(year_col)[est_fee_col].sum() at the year y, over the rows 1..n
RECURSIVE group_sum(_, _, _)
group_sum(df, y, n) ==
    IF n = 0 THEN 0
    ELSE group_sum(df, y, n - 1) + (IF df.aar[n] = y THEN df.est[n] ELSE 0)

\* diff_maker(df): the known total minus the year's sum of the estimates,
\* a series with the row labels 0..n-1 of the merge
diff_maker(df) ==
    IF ~df.nr_naaring THEN [err |-> ErrNrNaaring, diff |-> <<>>]
    ELSE [err |-> "none",
          diff |-> [p \in 1..Len(df.index) |->
                       df.total[p] - group_sum(df, df.aar[p], Len(df.index))]]

\* groupby(year_col)[estimated_fee_col].transform(max) at the year y
group_max(df, y) ==
    CHOOSE m \in {df.est[p] : p \in {q \in 1..Len(df.index) : df.aar[q] = y}} :
        \A p \in 1..Len(df.index) : df.aar[p] = y => df.est[p] <= m

\* the result of a call of main_program_functions that raised e
MpRaised(e) ==
    [err |-> e, index |-> <<>>, aar |-> <<>>, total |-> <<>>, est |-> <<>>,
     diff |-> <<>>, n_max_obs |-> <<>>, corr_fees |-> <<>>, r |-> <<>>]

\* rounding_error_dealer(df_in)
rounding_error_dealer(df) ==
    LET n == Len(df.index)
        d == diff_maker(df)
        \* df['diff'] = ...: the series is aligned on the row labels of df
        diff == [p \in 1..n |->
                    IF df.index[p] \in 0..(n - 1)
                    THEN FracOfInt(d.diff[df.index[p] + 1]) ELSE NaN]
        idx == [p \in 1..n |-> df.est[p] = group_max(df, df.aar[p])]
        n_max_obs == [p \in 1..n |->
                        Cardinality({q \in 1..n : df.aar[q] = df.aar[p] /\ idx[q]})]
        \* df.loc[idx] after the merge: idx keeps the labels of df_in and
        \* is aligned on the labels 0..n-1 of the merged table
        PosOf(label) == CHOOSE q \in 1..n : df.index[q] = label
        mask == [p \in 1..n |-> idx[PosOf(p - 1)]]
        corr_fees == [p \in 1..n |->
                        IF mask[p] /\ diff[p] # NaN
                        THEN FracAdd(FracOfInt(df.est[p]), FracDiv(diff[p], n_max_obs[p]))
                        ELSE NaN]
    IN IF d.err # "none" THEN MpRaised(d.err)
       ELSE IF \E label \in 0..(n - 1) : \A q \in 1..n : df.index[q] # label
       THEN MpRaised(ErrUnalignable)
       ELSE [err |-> "none",
             index |-> [p \in 1..n |-> p - 1],
             aar |-> df.aar,
             total |-> df.total,
             est |-> [p \in 1..n |->
                        IF corr_fees[p] # NaN THEN corr_fees[p] ELSE FracOfInt(df.est[p])],
             diff |-> diff,
             n_max_obs |-> n_max_obs,
             corr_fees |-> corr_fees,
             r |-> <<>>]

\* np.divide(df[X], df[Y], out=np.zeros_like(df[X]), where=df[Y] != 0)
divide_where(df, X, Y) ==
    [p \in 1..Len(df.index) |->
        IF Col(df, Y)[p] # 0 THEN true_divide(Col(df, X)[p], Col(df, Y)[p])
        ELSE FracOfInt(0)]

\* divider(df_in, X, Y, new_col): the quotient is float64 and out has the
\* dtype of df[X]
divider(df, X, Y) ==
    IF df.dtype = "int64" THEN MpRaised(ErrCast)
    ELSE [err |-> "none", index |-> df.index, aar |-> df.aar, total |-> df.total,
          est |-> [p \in 1..Len(df.index) |-> FracOfInt(df.est[p])],
          diff |-> <<>>, n_max_obs |-> <<>>, corr_fees |-> <<>>,
          r |-> divide_where(df, X, Y)]

(***************************************************************************)
(* src/data_import_tools/utility_module.py: input_argument_none_eliminator *)
(* and the functions of main_program_functions.py it wraps.  A call names, *)
(* for each of the arguments X, Y, Z and new_col, how it is passed:        *)
(* "omitted" (the default None applies), "None" and "value" positionally,  *)
(* "kw_None" and "kw_value" by keyword.                                    *)
(***************************************************************************)
ErrNoneArg == "ValueError: None present as argument or keyword argument in function. Please specify valid variables as inputs in function."
ErrKeyNone == "KeyError: None"

\* the argument reaches the wrapped function as None
IsNone(form) == form \in {"omitted", "None", "kw_None"}

\* wrapper: None in {**kwargs}.values()
input_argument_none_eliminator(call) ==
    \E a \in DOMAIN call : call[a] = "kw_None"

FracMul(a, n) == Frac(a.num * n, a.den)

\* round(0) of a float64 value: to the nearest integer, a tie to the even one
round0(a) ==
    LET q == a.num \div a.den
        twice == 2 * (a.num - q * a.den)
    IN FracOfInt(IF twice < a.den THEN q
                 ELSE IF twice > a.den THEN q + 1
                 ELSE IF q % 2 = 0 THEN q ELSE q + 1)

\* a table returned with the new column r
WithColumn(df, r) ==
    [err |-> "none", index |-> df.index, aar |-> df.aar, total |-> df.total,
     est |-> [p \in 1..Len(df.index) |-> FracOfInt(df.est[p])],
     diff |-> <<>>, n_max_obs |-> <<>>, corr_fees |-> <<>>, r |-> r]

\* multiplier(df_in, X, Y, new_col)
multiplier(df, X, Y) ==
    WithColumn(df, [p \in 1..Len(df.index) |-> FracOfInt(Col(df, X)[p] * Col(df, Y)[p])])

\* proportion_func(df_in, X, Y, Z, new_col)
proportion_func(df, X, Y, Z) ==
    IF df.dtype = "int64" THEN MpRaised(ErrCast)
    ELSE WithColumn(df, [p \in 1..Len(df.index) |->
                            round0(FracMul(divide_where(df, X, Y)[p], Col(df, Z)[p]))])

\* func(df, ...) through the wrapper, a value argument naming the column
\* total_avgift_kroner for X and Z and est_avgift_kroner for Y: whether the
\* wrapped function ran, and how the call ended
wrapped_call(func, df, call) ==
    IF input_argument_none_eliminator(call)
    THEN [ran |-> FALSE, out |-> MpRaised(ErrNoneArg)]
    ELSE [ran |-> TRUE,
          out |-> IF \/ IsNone(call.X)
                     \/ IsNone(call.Y)
                     \/ (func = "proportion_func" /\ IsNone(call.Z))
                  THEN MpRaised(ErrKeyNone)
                  ELSE IF func = "multiplier"
                  THEN multiplier(df, total_fee_col, estimated_fee_col)
                  ELSE IF func = "divider"
                  THEN divider(df, total_fee_col, estimated_fee_col)
                  ELSE proportion_func(df, total_fee_col, estimated_fee_col, total_fee_col)]

(***************************************************************************)
(* src/functions/main_program_functions.py: merge_func.  The left table    *)
(* has the one column produktkode and is the sequence of its values; the   *)
(* right table is a sequence of rows [produktkode, ytart]; the tables are  *)
(* joined on produktkode.  A missing ytart is "NaN".                       *)
(***************************************************************************)
MsgJoinOn == "Error: join_on argument is empty. Please define which column you want to join on."

\* the rows of df_r with the product code, in the order of df_r
RightRows(df_r, code) ==
    LET Same(row) == row.produktkode = code
    IN SelectSeq(df_r, Same)

\* the rows a row of df_l with the product code gives in a left or outer
\* join (keep) or in an inner join (not keep)
JoinedRows(df_r, code, keep) ==
    LET hits == RightRows(df_r, code)
    IN IF hits = <<>>
       THEN IF keep THEN << [produktkode |-> code, ytart |-> "NaN"] >> ELSE <<>>
       ELSE hits

RECURSIVE left_join(_, _, _)
left_join(df_l, df_r, keep) ==
    IF df_l = <<>> THEN <<>>
    ELSE JoinedRows(df_r, Head(df_l), keep) \o left_join(Tail(df_l), df_r, keep)

\* how='right': every row of df_r once for every row of df_l with its
\* product code, and once if there is none
RECURSIVE right_join(_, _)
right_join(df_l, df_r) ==
    IF df_r = <<>> THEN <<>>
    ELSE LET Same(code) == code = Head(df_r).produktkode
             n == Len(SelectSeq(df_l, Same))
         IN [i \in 1..(IF n = 0 THEN 1 ELSE n) |-> Head(df_r)]
            \o right_join(df_l, Tail(df_r))

\* how='outer': the rows of the left join and the rows of df_r without a
\* partner, sorted by product code
RECURSIVE outer_join(_, _, _)
outer_join(df_l, df_r, codes) ==
    IF codes = {} THEN <<>>
    ELSE LET code == CHOOSE c \in codes : \A d \in codes : c <= d
             Same(c) == c = code
             mine == SelectSeq(df_l, Same)
         IN (IF mine = <<>> THEN RightRows(df_r, code) ELSE left_join(mine, df_r, TRUE))
            \o outer_join(df_l, df_r, codes \ {code})

\* pd.merge(df_l, df_r, on=['produktkode'], how=join_method)
pd_merge(df_l, df_r, join_method) ==
    IF join_method = "left" THEN left_join(df_l, df_r, TRUE)
    ELSE IF join_method = "inner" THEN left_join(df_l, df_r, FALSE)
    ELSE IF join_method = "right" THEN right_join(df_l, df_r)
    ELSE outer_join(df_l, df_r,
                    Range(df_l) \cup {df_r[i].produktkode : i \in DOMAIN df_r})

\* dict(zip(df_r[...], df_r[...])) with the later row put over an earlier
\* one of the same product code: the same dict with the earlier row kept
ytart_dict_first(df_r) ==
    [code \in {df_r[i].produktkode : i \in DOMAIN df_r} |->
        df_r[CHOOSE i \in DOMAIN df_r :
                /\ df_r[i].produktkode = code
                /\ \A j \in DOMAIN df_r : df_r[j].produktkode = code => i <= j].ytart]

\* dict(zip(df_r[fill_based_on], df_r[fill_target_col])): a later pair
\* replaces an earlier pair with the same key
ytart_dict(df_r) ==
    [code \in {df_r[i].produktkode : i \in DOMAIN df_r} |->
        df_r[CHOOSE i \in DOMAIN df_r :
                /\ df_r[i].produktkode = code
                /\ \A j \in DOMAIN df_r : df_r[j].produktkode = code => j <= i].ytart]

\* merged_df[fill_based_on].map(ytart_dict)
map_dict(merged_df, dict) ==
    [p \in 1..Len(merged_df) |->
        [produktkode |-> merged_df[p].produktkode,
         ytart |-> IF merged_df[p].produktkode \in DOMAIN dict
                   THEN dict[merged_df[p].produktkode] ELSE "NaN"]]

\* merge_func(df_l, df_r, subset_columns_r, join_on, join_method, fill):
\* subset_columns_r is None or all columns of df_r, join_on is None or
\* ['produktkode'], which are also the columns the tables share
merge_func(df_l, df_r, has_subset, has_join_on, join_method, fill) ==
    IF has_subset /\ ~has_join_on
    THEN [ret |-> "None", printed |-> <<MsgJoinOn>>, joined |-> <<>>, merged_df |-> <<>>]
    ELSE LET joined == pd_merge(df_l, df_r, join_method)
         IN [ret |-> "merged_df", printed |-> <<>>, joined |-> joined,
             merged_df |-> IF fill THEN map_dict(joined, ytart_dict(df_r)) ELSE joined]

(***************************************************************************)
(* src/ts_tools/ts_agg_disagg.py.  A table has one float64 column; its     *)
(* index is a strictly increasing sequence of period ordinals: years,      *)
(* quarters (four to the year) and months (three to the quarter) counted   *)
(* from the start of year 0, days counted from 30 December of year 0.  An  *)
(* output table is a sequence of rows [period, val].                       *)
(***************************************************************************)
ErrNotDf == "TypeError: df must be a dataframe"
ErrIndexQY == "IndexError: dataframe must have PeriodIndex with frequency Q or Y"
ErrIndexQ == "IndexError: Input dataframe index not of quarterly periods (i.e. period[Q-DEC])"
ErrIndexA == "IndexError: Index not of annual periods (i.e. period[A-DEC])"
ErrConvert == "ValueError: Function can only convert from yearly (Y) to quarterly (Q) or quarterly (Q) to monthly (M)"
ErrKeyDtype == "KeyError: df.index.dtype"
ErrKeyFreq == "KeyError: target_freq"
ErrAggNotDf == "TypeError: df is not a dataframe"
ErrTargetFreq == "ValueError: Invalid target_freq input. Valid inputs are 'M', 'Q' and 'Y'."
ErrMethod == "ValueError: Invalid aggregation_method input. Valid methods are 'mean' and 'sum'."
ErrOrdering == "IndexError: Input dataframe index frequency lower than desired output frequency."
MsgNulls == "Null values present in output dataframe. Ensure that output dataframe contains desired output"

TsRaised(e) == [err |-> e, ret |-> "raised", rows |-> <<>>, printed |-> <<>>]
TsReturned(rows, printed) == [err |-> "none", ret |-> "df", rows |-> rows, printed |-> printed]

allowed_index_types == {"period[Q-DEC]", "period[A-DEC]"}

\* the periods of the output frequency in one period of the index
ChildrenPer(dtype) == IF dtype = "period[A-DEC]" THEN 4 ELSE 3

\* the same resampling with the new index ending at the start of the last
\* period, as the index of a table of timestamps would
resample_ffill_to_start(df) ==
    LET k == ChildrenPer(df.dtype)
        n == Len(df.index)
        lo == df.index[1] * k
        hi == df.index[n] * k
        Src(child) == CHOOSE p \in 1..n :
                         /\ df.index[p] * k <= child
                         /\ \A q \in 1..n : df.index[q] * k <= child => q <= p
    IN [c \in 1..(hi - lo + 1) |->
           [period |-> lo + c - 1, val |-> df.col[Src(lo + c - 1)]]]

\* df.resample(rule=output_freq, convention='start').ffill(): the new index
\* runs from the first child of the first period to the last child of the
\* last one, and a child takes the row of the last period that starts at
\* or before it
resample_ffill(df) ==
    LET k == ChildrenPer(df.dtype)
        n == Len(df.index)
        lo == df.index[1] * k
        hi == df.index[n] * k + (k - 1)
        Src(child) == CHOOSE p \in 1..n :
                         /\ df.index[p] * k <= child
                         /\ \A q \in 1..n : df.index[q] * k <= child => q <= p
    IN [c \in 1..(hi - lo + 1) |->
           [period |-> lo + c - 1, val |-> df.col[Src(lo + c - 1)]]]

\* disagg_func_stairs(df, input_freq, output_freq)
disagg_func_stairs(df, input_freq, output_freq) ==
    IF df.kind # "DataFrame" THEN TsRaised(ErrNotDf)
    ELSE IF df.dtype \notin allowed_index_types THEN TsRaised(ErrIndexQY)
    ELSE IF input_freq = "Q" /\ output_freq = "M"
    THEN IF df.dtype = "period[Q-DEC]" THEN TsReturned(resample_ffill(df), <<>>)
         ELSE TsRaised(ErrIndexQ)
    ELSE IF input_freq = "Y" /\ output_freq = "Q"
    THEN IF df.dtype = "period[A-DEC]" THEN TsReturned(resample_ffill(df), <<>>)
         ELSE TsRaised(ErrIndexA)
    ELSE TsRaised(ErrConvert)

allowed_dtypes == <<"datetime64[ns]", "period[D]", "period[M]", "period[Q-DEC]", "period[A-DEC]">>
allowed_freqs == {"M", "Q", "Y"}
allowed_methods == {"mean", "sum"}

\* allowed_combos[dtype], for a dtype of allowed_dtypes
allowed_combos(dtype) == (CHOOSE i \in DOMAIN allowed_dtypes : allowed_dtypes[i] = dtype) - 1

\* allowed_combos[df.index.dtype] finds its key: the keys are strings, a
\* period dtype hashes as its name, the numpy dtype datetime64[ns] does not
InCombos(dtype) == dtype \in Range(allowed_dtypes) \ {"datetime64[ns]"}

target_freq_vals == [D |-> 1, M |-> 2, Q |-> 3, Y |-> 4]

\* the month of a day
month_of_day(d) == IF d < 2 THEN 11 ELSE 12

\* the period of the frequency numbered to that holds the period x of the
\* frequency numbered from
RECURSIVE asfreq(_, _, _)
asfreq(x, from, to) ==
    IF from >= to THEN x
    ELSE asfreq(IF from = 1 THEN month_of_day(x)
                ELSE IF from = 2 THEN x \div 3 ELSE x \div 4, from + 1, to)

\* the values of the rows 1..n of df in the period bin of the target
RECURSIVE BinSeries(_, _, _, _)
BinSeries(df, to, bin, n) ==
    IF n = 0 THEN <<>>
    ELSE BinSeries(df, to, bin, n - 1)
         \o (IF asfreq(df.index[n], allowed_combos(df.dtype), to) = bin
             THEN <<df.col[n]>> ELSE <<>>)

IsNull(series) == \E i \in DOMAIN series : series[i] = NaN

\* series.sum(): the sum of the values that are not null
RECURSIVE series_sum(_)
series_sum(series) ==
    IF series = <<>> THEN FracOfInt(0)
    ELSE IF Head(series) = NaN THEN series_sum(Tail(series))
    ELSE FracAdd(Head(series), series_sum(Tail(series)))

\* series.mean(): the mean of the values that are not null
series_mean(series) ==
    LET NotNull(v) == v # NaN
        n == Len(SelectSeq(series, NotNull))
    IN IF n = 0 THEN NaN ELSE FracDiv(series_sum(series), n)

\* the helper of ignore_incomplete == True without its test for nulls
smart_sum_no_test(series) == series_sum(series)

smart_mean(series) == IF IsNull(series) THEN NaN ELSE series_mean(series)

smart_sum(series) == IF IsNull(series) THEN NaN ELSE series_sum(series)

\* df.resample(target_freq) followed by how: one row for every period of
\* the target from the one of the first row to the one of the last row
resample(df, target_freq, how) ==
    LET to == target_freq_vals[target_freq]
        n == Len(df.index)
        lo == asfreq(df.index[1], allowed_combos(df.dtype), to)
        hi == asfreq(df.index[n], allowed_combos(df.dtype), to)
        Agg(series) == IF how = "smart_mean" THEN smart_mean(series)
                       ELSE IF how = "smart_sum" THEN smart_sum(series)
                       ELSE IF how = "mean" THEN series_mean(series)
                       ELSE series_sum(series)
    IN [b \in 1..(hi - lo + 1) |->
           [period |-> lo + b - 1, val |-> Agg(BinSeries(df, to, lo + b - 1, n))]]

\* the test of line 235 with < for <=
ordering_strict(target_freq_num, input_idx_num) == target_freq_num < input_idx_num

\* target_freq_num <= input_idx_num
ordering(target_freq_num, input_idx_num) == target_freq_num <= input_idx_num

\* aggregation_func(df, target_freq, aggregation_method, ignore_incomplete)
aggregation_func(df, target_freq, aggregation_method, ignore_incomplete) ==
    IF ~InCombos(df.dtype) THEN TsRaised(ErrKeyDtype)
    ELSE IF target_freq \notin DOMAIN target_freq_vals THEN TsRaised(ErrKeyFreq)
    ELSE IF df.kind # "DataFrame" THEN TsRaised(ErrAggNotDf)
    ELSE IF target_freq \notin allowed_freqs THEN TsRaised(ErrTargetFreq)
    ELSE IF aggregation_method \notin allowed_methods THEN TsRaised(ErrMethod)
    ELSE IF ordering(target_freq_vals[target_freq], allowed_combos(df.dtype))
    THEN TsRaised(ErrOrdering)
    ELSE IF ignore_incomplete
    THEN TsReturned(resample(df, target_freq,
                             IF aggregation_method = "mean" THEN "smart_mean" ELSE "smart_sum"),
                    <<>>)
    ELSE TsReturned(resample(df, target_freq, aggregation_method),
                    IF IsNull(df.col) THEN <<MsgNulls>> ELSE <<>>)

(***************************************************************************)
(* src/functions/export_helpers.py: batch_exporter.  The table is a        *)
(* sequence of rows [aar, val]; under export_path the disk holds the       *)
(* directories dirs, named by their year, and the files, one record        *)
(* [aar, rows] for export_path/aar/prefix_aar.xlsx.                        *)
(***************************************************************************)
ErrFileExists == "FileExistsError"

\* df[year_col].unique(): the years in the order of their first row
year_unique(df) ==
    LET aar == [p \in DOMAIN df |-> df[p].aar]
        First(p) == \A q \in 1..(p - 1) : aar[q] # aar[p]
        firsts == SelectSeq([p \in DOMAIN df |-> p], First)
    IN [i \in DOMAIN firsts |-> aar[firsts[i]]]

\* [os.makedirs(f'{export_path}/{year}') for year in years]: os.makedirs
\* raises FileExistsError for a directory that exists, and the directories
\* made before it stay
RECURSIVE makedirs_each(_, _)
makedirs_each(years, dirs) ==
    IF years = <<>> THEN [err |-> "none", dirs |-> dirs]
    ELSE IF Head(years) \in dirs THEN [err |-> ErrFileExists, dirs |-> dirs]
    ELSE makedirs_each(Tail(years), dirs \cup {Head(years)})

\* df.loc[df[year_col] == year]
rows_of_year(df, year) ==
    LET Same(row) == row.aar = year
    IN SelectSeq(df, Same)

\* the files after to_excel has written the rows of every year
to_excel_each(df, files) ==
    LET written == Range(year_unique(df))
    IN {f \in files : f.aar \notin written}
       \cup {[aar |-> year, rows |-> rows_of_year(df, year)] : year \in written}

\* batch_exporter(df, year_col, export_path, prefix) on a disk
batch_exporter(df, dirs, files) ==
    LET years == year_unique(df)
        made == IF \A i \in DOMAIN years : years[i] \in dirs
                THEN [err |-> "none", dirs |-> dirs]
                ELSE makedirs_each(years, dirs)
    IN IF made.err # "none"
       THEN [err |-> made.err, dirs |-> made.dirs, files |-> files]
       ELSE [err |-> "none", dirs |-> made.dirs, files |-> to_excel_each(df, files)]

(***************************************************************************)
(* State.                                                                  *)
(*   dir      the directory handed to file_finder                          *)
(*   ff       the last call of file_finder: filter_clauses and result      *)
(*   disk     the tree under the root path of the FolderSearcher           *)
(*   helpers  the import_helpers module the FolderSearcher is bound to     *)
(*   self     the attributes of the FolderSearcher                         *)
(*   gm       how the last generate_metadata call ended, and the folders   *)
(*            it handed to file_finder                                     *)
(*   sd       the last subset_datasets call since the table was built:     *)
(*            its arguments and the table before it                        *)
(*   im       the last call of an importer: its arguments and how it ended *)
(*   di       the DataImporter: folder_dict and sorted_dataframes once     *)
(*            set, the last method called on it, how that ended and the    *)
(*            folder_dict before it                                        *)
(***************************************************************************)
VARIABLES dir, ff, disk, helpers, self, gm, sd, im, di, mp, mf, ts, ex

finderVars == <<dir, ff>>
metaVars == <<disk, helpers, self, gm, sd>>
vars == <<dir, ff, disk, helpers, self, gm, sd, im, di, mp, mf, ts, ex>>

NoDir == [entries |-> <<>>, files |-> {}]
NoRoot == [exists |-> FALSE, listing |-> <<>>, tree |-> <<>>]
GmIdle == [status |-> "idle", searched |-> <<>>]
SdIdle == [called |-> FALSE, groups |-> <<>>, keep_vals |-> <<>>,
           before |-> <<>>, err |-> "none"]

\* FolderSearcher.__init__
NewFolderSearcher(dataset_list, use_numeric_folders, start_year, stop_year) ==
    [dataset_list        |-> LowerAll(dataset_list),
     use_numeric_folders |-> use_numeric_folders,
     start_year          |-> start_year,
     stop_year           |-> stop_year,
     list_of_folders     |-> <<>>,
     folder_list         |-> <<>>,
     filepaths           |-> <<>>,
     metadata_df         |-> <<>>,
     has_df              |-> FALSE]

NoYears == [attach |-> FALSE, start |-> 0, stop |-> 0]
ImIdle == [func |-> "idle", df |-> <<>>, folder_path |-> <<>>, filter_clauses |-> <<>>,
           filetype |-> <<>>, years |-> NoYears, store_as |-> "dict",
           out |-> Returned("None", <<>>, <<>>, <<>>)]

\* DataImporter.__init__: folder_dict and sorted_dataframes are not set
DiIdle == [has_folder_dict |-> FALSE, folder_dict |-> <<>>,
           has_sorted |-> FALSE, sorted_dataframes |-> <<>>,
           method |-> "init", dataset_list |-> <<>>, err |-> "none",
           printed |-> <<>>, before |-> <<>>]

\* no table, and no function of main_program_functions called
MpIdle == [df |-> [index |-> <<>>, aar |-> <<>>, total |-> <<>>, est |-> <<>>,
                   dtype |-> "int64", nr_naaring |-> FALSE],
           method |-> "init", X |-> "", Y |-> "", out |-> MpRaised("none"),
           call |-> [X |-> "omitted", Y |-> "omitted", Z |-> "omitted", new_col |-> "omitted"],
           ran |-> FALSE]

\* no tables, and merge_func not called
MfIdle == [df_l |-> <<>>, df_r |-> <<>>, called |-> FALSE, has_subset |-> FALSE,
           has_join_on |-> FALSE, join_method |-> "left", fill |-> FALSE,
           out |-> [ret |-> "None", printed |-> <<>>, joined |-> <<>>, merged_df |-> <<>>]]

\* no table, and no function of ts_agg_disagg.py called
TsIdle == [df |-> [kind |-> "DataFrame", dtype |-> "int64", index |-> <<>>, col |-> <<>>],
           func |-> "init", input_freq |-> "", output_freq |-> "", target_freq |-> "",
           aggregation_method |-> "", ignore_incomplete |-> FALSE,
           out |-> TsRaised("none")]

\* no table, nothing under export_path, and batch_exporter not called
ExIdle == [df |-> <<>>, dirs |-> {}, files |-> {}, called |-> FALSE, err |-> "none",
           before |-> {}]

MetaUnused ==
    /\ disk = NoRoot
    /\ helpers = "functions"
    /\ self = NewFolderSearcher(<<>>, TRUE, 0, 0)
    /\ gm = GmIdle
    /\ sd = SdIdle
    /\ im = ImIdle
    /\ di = DiIdle
    /\ mf = MfIdle
    /\ ts = TsIdle
    /\ ex = ExIdle
    /\ mp = MpIdle

FinderIdle == [called |-> FALSE, terms |-> None, ret |-> <<>>]

FinderUnused ==
    /\ dir = NoDir
    /\ ff = FinderIdle

\* file names and search terms the file_finder calls are tried on
FinderNames == { <<"a">>, <<"A">>, <<"b", "a">>, <<"b", ".">>, <<".", "a">> }
FinderSubdirs == { <<"a", "a">> }
FinderTerms == { <<"a">>, <<"A">>, <<".", "a">>, <<>> }

SubsetsUpTo(S, n) == {X \in SUBSET S : Cardinality(X) <= n}

DistinctSeqs(S, n) ==
    {s \in SeqsOf(S, 0, n) : \A i, j \in 1..Len(s) : i # j => s[i] # s[j]}

\* a directory of regular files, listed in the given order
FilesDir(names) == [entries |-> names, files |-> Range(names)]

InitFinder ==
    /\ \E fs \in DistinctSeqs(FinderNames, MaxFiles) :
       \E ds \in DistinctSeqs(FinderSubdirs, 1) :
           dir = [entries |-> ds \o fs, files |-> Range(fs)]
    /\ ff = FinderIdle
    /\ MetaUnused

\* file_finder(folder_path, filter_clauses)
FileFinder(filter_clauses) ==
    /\ ff' = [called |-> TRUE, terms |-> filter_clauses,
              ret |-> file_finder(dir, filter_clauses)]
    /\ UNCHANGED <<dir, metaVars, im, di, mp, mf, ts, ex>>

NextFinder ==
    \E t \in SeqsOf(FinderTerms, 0, MaxTerms) \cup {None} : FileFinder(t)

SpecFinder == InitFinder /\ [][NextFinder]_vars

(***************************************************************************)
(* FolderSearcher: the trees and parameters it is tried on.                *)
(***************************************************************************)
FolderNames == { <<"2">>, <<"0", "2">>, <<"3">>, <<"a">>, <<"sup2">> }
MetaFileNames == { <<"a">>, <<"A">> }
MetaTermLists == { << <<"A">> >>, << <<"b">> >> }
YearPairs == { <<2, 3>>, <<2, 2>>, <<3, 2>> }

Disks(folderNames, fileNames) ==
    {[exists |-> TRUE, listing |-> l, tree |-> t] :
        <<l, t>> \in UNION {
            {<<l2, t2>> : t2 \in [Range(l2) ->
                            {FilesDir(SetToSeq(fs)) :
                                fs \in SubsetsUpTo(fileNames, MaxFiles)}]}
            : l2 \in DistinctSeqs(folderNames, MaxFolders)}}

InitMeta ==
    /\ disk \in Disks(FolderNames, MetaFileNames) \cup {NoRoot}
    /\ helpers \in HelperPackages
    /\ \E dl \in MetaTermLists : \E num \in BOOLEAN : \E yp \in YearPairs :
           self = NewFolderSearcher(dl, num, yp[1], yp[2])
    /\ gm = GmIdle
    /\ sd = SdIdle
    /\ im = ImIdle
    /\ di = DiIdle
    /\ mf = MfIdle
    /\ ts = TsIdle
    /\ ex = ExIdle
    /\ mp = MpIdle
    /\ FinderUnused

\* FolderSearcher.generate_metadata()
GenerateMetadata ==
    /\ LET r == generate_metadata(helpers, disk, self)
       IN /\ self' = r.self
          /\ gm' = [status |-> r.status, searched |-> r.searched]
    /\ sd' = SdIdle   \* sd describes a call on the table of the last build
    /\ UNCHANGED <<disk, helpers, im, di, finderVars, mp, mf, ts, ex>>

NextMeta == GenerateMetadata

SpecMeta == InitMeta /\ [][NextMeta]_vars

\* FolderSearcher.subset_datasets(groups, keep_vals)
SubsetDatasets(groups, keep_vals) ==
    /\ IF self.has_df
       THEN /\ self' = [self EXCEPT !.metadata_df =
                            subset_datasets(self.metadata_df, groups, keep_vals)]
            /\ sd' = [called |-> TRUE, groups |-> groups, keep_vals |-> keep_vals,
                      before |-> self.metadata_df, err |-> "none"]
       ELSE /\ self' = self
            /\ sd' = [called |-> TRUE, groups |-> groups, keep_vals |-> keep_vals,
                      before |-> <<>>, err |-> ErrNoTable]
    /\ UNCHANGED <<disk, helpers, gm, im, di, finderVars, mp, mf, ts, ex>>

SubsetFolderNames == { <<"2">>, <<"3">> }
SubsetFileNames == { <<"a">>, <<"b">> }
SubsetGroupTerms == { <<"a">> }
SubsetKeepVals == { <<"2">>, <<"3">> }

InitSubset ==
    /\ disk \in Disks(SubsetFolderNames, SubsetFileNames)
    /\ helpers = "data_import_tools"
    /\ self = NewFolderSearcher(<<>>, TRUE, 2, 3)
    /\ gm = GmIdle
    /\ sd = SdIdle
    /\ im = ImIdle
    /\ di = DiIdle
    /\ mf = MfIdle
    /\ ts = TsIdle
    /\ ex = ExIdle
    /\ mp = MpIdle
    /\ FinderUnused

NextSubset ==
    \/ GenerateMetadata
    \/ \E g \in SeqsOf(SubsetGroupTerms, 0, MaxTerms) :
       \E k \in SeqsOf(SubsetKeepVals, 0, MaxTerms) : SubsetDatasets(g, k)

SpecSubset == InitSubset /\ [][NextSubset]_vars

(***************************************************************************)
(* The importers: the trees and arguments they are tried on.               *)
(***************************************************************************)
\* rows with the smaller filename first, rows of equal filename in the
\* order they had
RECURSIVE sort_by_filename(_)
sort_by_filename(rows) ==
    IF rows = <<>> THEN <<>>
    ELSE LET init == sort_by_filename(SubSeq(rows, 1, Len(rows) - 1))
             last == rows[Len(rows)]
             Before(row) == ~StrLess(last.filename, row.filename)
             After(row) == StrLess(last.filename, row.filename)
         IN SelectSeq(init, Before) \o <<last>> \o SelectSeq(init, After)

\* FolderSearcher.output_df()
output_df(self_) == sort_by_filename(self_.metadata_df)

\* DataImporter(metadata_df=searcher.output_df()).simple_import(filetype=...)
SimpleImporter(filetype) ==
    /\ self.has_df
    /\ LET out == simple_importer(disk, output_df(self), filetype)
       IN /\ im' = [ImIdle EXCEPT !.func = "simple_importer",
                                  !.df = output_df(self),
                                  !.filetype = filetype,
                                  !.out = out]
          /\ di' = [DiIdle EXCEPT !.has_folder_dict = (out.err = "none"),
                                  !.folder_dict = out.ret,
                                  !.method = "simple_import",
                                  !.err = out.err]
    /\ UNCHANGED <<metaVars, finderVars, mp, mf, ts, ex>>

\* file_batch_importer(folder_path, *filter_clauses, filetype=..., ...)
FileBatchImporter(folder, call) ==
    /\ im' = [func |-> "file_batch_importer", df |-> <<>>,
              folder_path |-> FolderPath(folder),
              filter_clauses |-> call.filter_clauses,
              filetype |-> call.filetype,
              years |-> call.years,
              store_as |-> call.store_as,
              out |-> file_batch_importer(disk, FolderPath(folder), call.filter_clauses,
                          call.filetype, call.years.attach, call.years.start,
                          call.years.stop, call.store_as)]
    /\ UNCHANGED <<metaVars, finderVars, di, mp, mf, ts, ex>>

json == <<"j", "s", "o", "n">>

ImportFolderNames == { <<"2">>, <<"3">> }
ImportFileNames == { <<"A", ".", "c", "s", "v">>, <<"b", ".", "t", "x", "t">> }
ImportDatasetList == << <<"a">>, <<"b">> >>
SimpleFiletypes == Range(allowed_filetypes) \cup {json, NoneStr}
YearOptions == { NoYears, [attach |-> TRUE, start |-> 2, stop |-> 2],
                 [attach |-> TRUE, start |-> 2, stop |-> 3] }
ClauseTuples == { << ListClause(<< <<"A">> >>) >>,
                  << StrClause(<<"x", "s">>) >>,
                  << StrClause(<<"a">>), StrClause(<<"b">>) >> }

BatchCalls ==
    [filter_clauses : {<<>>}, filetype : {csv, txt, json, <<>>},
     years : {NoYears}, store_as : {"dict"}]
    \cup [filter_clauses : {<<>>}, filetype : {csv, txt},
          years : YearOptions, store_as : {"dict", "list", "df", "tuple"}]
    \cup [filter_clauses : ClauseTuples, filetype : {csv},
          years : {NoYears}, store_as : {"dict"}]

InitImport ==
    /\ disk \in Disks(ImportFolderNames, ImportFileNames)
    /\ helpers = "data_import_tools"
    /\ self = NewFolderSearcher(ImportDatasetList, FALSE, 0, 0)
    /\ gm = GmIdle
    /\ sd = SdIdle
    /\ im = ImIdle
    /\ di = DiIdle
    /\ mf = MfIdle
    /\ ts = TsIdle
    /\ ex = ExIdle
    /\ mp = MpIdle
    /\ FinderUnused

NextImport ==
    \/ GenerateMetadata
    \/ \E filetype \in SimpleFiletypes : SimpleImporter(filetype)
    \/ \E folder \in ImportFolderNames : \E call \in BatchCalls :
           FileBatchImporter(folder, call)

SpecImport == InitImport /\ [][NextImport]_vars

(***************************************************************************)
(* file_batch_importer alone, on one folder whose files os.listdir may     *)
(* return in any order.                                                    *)
(***************************************************************************)
BatchFolder == <<"2">>
BatchFileNames == { <<"A", ".", "c", "s", "v">>, <<"c", ".", "c", "s", "v">>,
                    <<"b", ".", "t", "x", "t">> }

InitBatch ==
    /\ \E names \in DistinctSeqs(BatchFileNames, MaxFiles) :
           disk = [exists |-> TRUE, listing |-> <<BatchFolder>>,
                   tree |-> [f \in {BatchFolder} |-> FilesDir(names)]]
    /\ helpers = "data_import_tools"
    /\ self = NewFolderSearcher(<<>>, FALSE, 0, 0)
    /\ gm = GmIdle
    /\ sd = SdIdle
    /\ im = ImIdle
    /\ di = DiIdle
    /\ mf = MfIdle
    /\ ts = TsIdle
    /\ ex = ExIdle
    /\ mp = MpIdle
    /\ FinderUnused

NextBatch ==
    \E folder \in ImportFolderNames : \E call \in BatchCalls :
        FileBatchImporter(folder, call)

SpecBatch == InitBatch /\ [][NextBatch]_vars

(***************************************************************************)
(* DataImporter on the tables of a FolderSearcher.                         *)
(***************************************************************************)
\* DataImporter.add_years()
AddYears ==
    /\ IF di.has_folder_dict
       THEN LET r == add_years(di.folder_dict)
            IN di' = [di EXCEPT !.folder_dict = r.folder_dict,
                                !.method = "add_years",
                                !.dataset_list = <<>>,
                                !.err = r.err,
                                !.printed = r.printed,
                                !.before = di.folder_dict]
       ELSE di' = [di EXCEPT !.method = "add_years",
                             !.dataset_list = <<>>,
                             !.err = ErrNoFolderDict,
                             !.printed = <<>>,
                             !.before = <<>>]
    /\ UNCHANGED <<metaVars, finderVars, im, mp, mf, ts, ex>>

\* DataImporter.categorise_data(dataset_list=dataset_list)
CategoriseData(dataset_list) ==
    /\ IF di.has_folder_dict
       THEN LET r == categorise_data(di.folder_dict, dataset_list)
            IN di' = [di EXCEPT !.has_sorted = IF r.err = "none" THEN TRUE ELSE @,
                                !.sorted_dataframes = IF r.err = "none" THEN r.storage_dict ELSE @,
                                !.method = "categorise_data",
                                !.dataset_list = dataset_list,
                                !.err = r.err,
                                !.printed = <<>>,
                                !.before = di.folder_dict]
       ELSE di' = [di EXCEPT !.method = "categorise_data",
                             !.dataset_list = dataset_list,
                             !.err = ErrNoFolderDict,
                             !.printed = <<>>,
                             !.before = <<>>]
    /\ UNCHANGED <<metaVars, finderVars, im, mp, mf, ts, ex>>

DataFolderNames == { <<"3">>, <<"x">> }
DataFileNames == { <<"a">>, <<"a", "b">> }
DataDatasetList == << <<"a">> >>
DataFiletypes == { csv, json }
DataKeywords == { <<"a">>, <<"b">> }

InitData ==
    /\ disk \in Disks(DataFolderNames, DataFileNames)
    /\ helpers = "data_import_tools"
    /\ self = NewFolderSearcher(DataDatasetList, FALSE, 0, 0)
    /\ gm = GmIdle
    /\ sd = SdIdle
    /\ im = ImIdle
    /\ di = DiIdle
    /\ mf = MfIdle
    /\ ts = TsIdle
    /\ ex = ExIdle
    /\ mp = MpIdle
    /\ FinderUnused

NextData ==
    \/ GenerateMetadata
    \/ \E filetype \in DataFiletypes : SimpleImporter(filetype)
    \/ AddYears
    \/ \E dataset_list \in SeqsOf(DataKeywords, 0, MaxTerms) : CategoriseData(dataset_list)
    \/ SubsetDatasets(<< <<"a">> >>, << <<"9">> >>)

SpecData == InitData /\ [][NextData]_vars

(***************************************************************************)
(* Claims about file_finder.                                               *)
(***************************************************************************)
IsSortedAsc(xs) ==
    \A i \in 1..(Len(xs) - 1) : xs[i] = xs[i + 1] \/ StrLess(xs[i], xs[i + 1])

\* the regular files of d whose lower-cased name contains some lower-cased
\* term as a plain substring
SubstringMatches(d, terms) ==
    {n \in d.files : \E k \in 1..Len(terms) : IsSubstring(Lower(terms[k]), Lower(n))}

\* C1: for a non-empty list of terms file_finder returns, sorted ascending,
\* exactly the lower-cased names of the regular files whose lower-cased name
\* contains at least one lower-cased term as a substring.
C1_SubstringContract ==
    (ff.called /\ ff.terms # None /\ ff.terms # <<>>) =>
        /\ IsSortedAsc(ff.ret)
        /\ Range(ff.ret) = {Lower(n) : n \in SubstringMatches(dir, ff.terms)}
        /\ Len(ff.ret) = Cardinality(SubstringMatches(dir, ff.terms))

Called == gm.status # "idle"

\* the Folder Enumerator returned a folder list
Enumerated == Called /\ gm.status \notin {ErrPathMissing, ErrIntLiteral}

\* one record per (folder, matched file) pair, folders in the given order
RECURSIVE PairRows(_, _, _)
PairRows(folders, d, terms) ==
    IF folders = <<>> THEN <<>>
    ELSE LET y == Head(folders)
             files == IF y \in DOMAIN d.tree THEN file_finder(d.tree[y], terms)
                      ELSE <<>>
         IN [i \in 1..Len(files) |->
                [path |-> FilePath(y, files[i]), filename |-> files[i], directory |-> y]]
            \o PairRows(Tail(folders), d, terms)

\* C3: generate_metadata builds a table with exactly one record per
\* (searched folder, matched file) pair, folders in the order the Folder
\* Enumerator returned them, each record with path = root/folder/filename,
\* filename = last component of path, directory = the folder.
C3_OneRecordPerPair ==
    Enumerated =>
        LET rows == PairRows(Texts(self.folder_list), disk, self.dataset_list)
        IN rows # <<>> => (gm.status = "ok" /\ self.has_df /\ self.metadata_df = rows)

\* C4: every record of the metadata table has a path naming a regular file
\* that exists on disk.
C4_PathsExist ==
    self.has_df =>
        \A i \in 1..Len(self.metadata_df) : IsFileOnDisk(disk, self.metadata_df[i].path)

\* the folder names the Folder Enumerator is specified to return: the
\* immediate sub-directories, and with numeric-only filtering those that
\* parse as an integer within [start_year, stop_year]
InYearRange(name) ==
    /\ IntParses(name)
    /\ ParseInt(name) >= self.start_year
    /\ ParseInt(name) <= self.stop_year

EnumeratedFolders ==
    IF self.use_numeric_folders THEN SelectSeq(disk.listing, InYearRange)
    ELSE disk.listing

NoFileMatches ==
    \A i \in 1..Len(EnumeratedFolders) :
        file_finder(disk.tree[EnumeratedFolders[i]], self.dataset_list) = <<>>

\* C5: generate_metadata fails with the no-match error whenever no file in
\* any searched folder matches the search terms, and returns no table then.
C5_NoMatchError ==
    (Called /\ disk.exists /\ NoFileMatches) =>
        (gm.status = ErrNoResults /\ ~self.has_df)

\* C6: with numeric-only filtering the folder list used for the search is
\* exactly the on-disk names of the sub-directories that parse as an integer
\* within [start_year, stop_year]; other names are dropped without raising.
C6_NumericFolderNames ==
    (Called /\ disk.exists /\ self.use_numeric_folders) =>
        /\ gm.status # ErrIntLiteral
        /\ Texts(self.folder_list) = EnumeratedFolders

MatchesAny(terms, s) == \E k \in 1..Len(terms) : RegexSearch(terms[k], s)

Count(rows, row) == Cardinality({i \in 1..Len(rows) : rows[i] = row})

\* the rows subset_datasets is to keep: outside the group, or in the group
\* with a directory matching a keep value
KeptBySubset(row) ==
    \/ ~MatchesAny(sd.groups, row.filename)
    \/ MatchesAny(sd.keep_vals, row.directory)

SubsetIsCarveOut ==
    \A row \in Range(sd.before) \cup Range(self.metadata_df) :
        Count(self.metadata_df, row) =
            IF KeptBySubset(row) THEN Count(sd.before, row) ELSE 0

\* C8 as stated: after subset_datasets(groups, keep_vals) the table holds,
\* as a collection of rows, the rows matching no group term plus the rows
\* matching a group term and a keep value, each as often as before.
C8_CarveOut ==
    (sd.called /\ sd.err = "none") => SubsetIsCarveOut

\* C8 as amended: the same, for non-empty groups and keep_vals.
C8_CarveOutNonEmpty ==
    (sd.called /\ sd.err = "none" /\ sd.groups # <<>> /\ sd.keep_vals # <<>>) =>
        SubsetIsCarveOut

\* a call that dropped a row of the group, kept another and passed a row
\* outside the group through
C8_Witness ==
    /\ sd.called /\ sd.err = "none" /\ sd.groups # <<>> /\ sd.keep_vals # <<>>
    /\ \E r \in Range(sd.before) : r \notin Range(self.metadata_df)
    /\ \E r \in Range(self.metadata_df) : MatchesAny(sd.groups, r.filename)
    /\ \E r \in Range(self.metadata_df) : ~MatchesAny(sd.groups, r.filename)

(***************************************************************************)
(* Claims about the importers.                                             *)
(***************************************************************************)
ImportCalled == im.func # "idle"

\* C9: for a format outside the allowed list each importer fails with an
\* error that lists the allowed formats, and reads no file.
C9_BadFormatFails ==
    (ImportCalled /\ im.filetype \notin Range(allowed_filetypes)) =>
        (im.out.err = ErrFiletype /\ im.out.reads = <<>>)

\* the mapping simple_importer is to return for a table of records
ExpectedImport(df, result) ==
    /\ \A i \in 1..Len(df) :
        /\ DictHas(result, df[i].directory)
        /\ DictHas(DictGet(result, df[i].directory), df[i].filename)
        /\ read_table(disk, df[i].path).err = "none"
        /\ DictGet(DictGet(result, df[i].directory), df[i].filename)
              = lower_columns(read_table(disk, df[i].path).ret)
    /\ \A d \in 1..Len(result) : \A f \in 1..Len(result[d].val) :
        \E i \in 1..Len(df) :
            df[i].directory = result[d].key /\ df[i].filename = result[d].val[f].key

\* C10: for every allowed format and every metadata table simple_importer
\* returns a two-level mapping with result[d][f] the table read from p,
\* column names lower-cased, for each record (d, f, p), and no other key.
C10_TwoLevelMapping ==
    (im.func = "simple_importer" /\ im.filetype \in Range(allowed_filetypes)) =>
        /\ im.out.err = "none"
        /\ im.out.kind = "nested"
        /\ ExpectedImport(im.df, im.out.ret)

(***************************************************************************)
(* Claims about file_batch_importer.                                       *)
(***************************************************************************)
BatchCalled == im.func = "file_batch_importer"

\* what the call of im returns with attach_years switched off: the tables
\* it imports
ImportedWithoutYears ==
    file_batch_importer(disk, im.folder_path, im.filter_clauses, im.filetype,
                        FALSE, 0, 0, im.store_as)

\* the call of im imported tables, as many as ImportedCount
ImportedSome ==
    /\ BatchCalled
    /\ im.store_as \in {"dict", "list", "df"}
    /\ ImportedWithoutYears.err = "none"
    /\ ImportedWithoutYears.kind # "None"

ImportedCount == Len(ImportedWithoutYears.ret)

YearCount == Len(arange(im.years.start, im.years.stop))

\* C11: with attach_years, if the number of imported tables differs from the
\* number of years of [year_start, year_stop], file_batch_importer fails
\* with the year-count-mismatch error and returns no table, for each of the
\* shapes dict, list and df.
C11_YearMismatchFails ==
    (ImportedSome /\ im.years.attach /\ ImportedCount # YearCount) =>
        (im.out.err # "none" /\ im.out.kind = "raised")

\* the tables a call returned, in the order of the list or of the dict
ReturnedTables ==
    IF im.out.kind = "dict"
    THEN [i \in 1..Len(im.out.ret) |-> im.out.ret[i].val]
    ELSE im.out.ret

\* the name of the file a table was read from
SourceName(t) == string_clipper(t.source, -1)

\* C12: with attach_years and as many imported tables as years, the i-th
\* imported table in sorted-filename order (i from 0) carries the year
\* year_start + i, for each of the shapes dict, list and df.
C12_YearsInFileOrder ==
    (ImportedSome /\ im.years.attach /\ ImportedCount = YearCount) =>
        /\ im.out.err = "none"
        /\ im.out.kind = im.store_as
        /\ Len(ReturnedTables) = YearCount
        /\ \A i \in 1..Len(ReturnedTables) :
              ReturnedTables[i].aar = <<im.years.start + i - 1>>
        /\ \A i, j \in 1..Len(ReturnedTables) :
              i < j => ~StrLess(SourceName(ReturnedTables[j]), SourceName(ReturnedTables[i]))

\* the files of the folder that the clauses and the filetype of im select:
\* the lower-cased name contains some clause, the name contains the filetype
SelectedFiles ==
    LET d == disk.tree[SplitSlash(im.folder_path)[2]]
        HasClause(n) ==
            \/ im.filter_clauses = <<>>
            \/ \E k \in 1..Len(im.filter_clauses) :
                  IsSubstring(Lower(im.filter_clauses[k].text), Lower(n))
    IN {n \in d.files : HasClause(n) /\ IsSubstring(im.filetype, n)}

\* C13: file_batch_importer(folder_path, c1, ..., cn, filetype=t) imports
\* exactly the files of folder_path whose lower-cased name contains one of
\* the clauses as a substring and whose name contains t, for any n >= 1;
\* with no clause every file whose name contains t.
C13_ImportsSelectedFiles ==
    (/\ BatchCalled
     /\ im.filetype \in Range(allowed_filetypes)
     /\ im.store_as \in {"dict", "list", "df"}
     /\ ~im.years.attach
     /\ IsDirOnDisk(disk, im.folder_path)
     /\ \A k \in 1..Len(im.filter_clauses) : im.filter_clauses[k].ty = "str") =>
        /\ im.out.err = "none"
        /\ Range(im.out.reads) = {im.folder_path \o <<"/">> \o n : n \in SelectedFiles}
        /\ Len(im.out.reads) = Cardinality(SelectedFiles)

(***************************************************************************)
(* Specification of the column arithmetic of main_program_functions.       *)
(***************************************************************************)
\* rounding_error_dealer(df_in) with the default column names
RoundingErrorDealer ==
    /\ mp' = [mp EXCEPT !.method = "rounding_error_dealer", !.X = "", !.Y = "",
                        !.out = rounding_error_dealer(mp.df)]
    /\ UNCHANGED <<metaVars, finderVars, im, di, mf, ts, ex>>

\* divider(df_in, X, Y, "r")
Divider(X, Y) ==
    /\ mp' = [mp EXCEPT !.method = "divider", !.X = X, !.Y = Y,
                        !.out = divider(mp.df, X, Y)]
    /\ UNCHANGED <<metaVars, finderVars, im, di, mf, ts, ex>>

Years == {1, 2}
Estimates == {0, 1, 2}
Totals == {3, 4}
Dtypes == {"int64", "float64"}
DividerColumns == {total_fee_col, estimated_fee_col}

\* row labels of a table of n rows: the default labels, the default labels
\* in reverse order, and the labels left when the first row of a longer
\* table was dropped
RowIndexes(n) ==
    {[p \in 1..n |-> p - 1], [p \in 1..n |-> n - p], [p \in 1..n |-> p]}

\* rows with equal years are adjacent
Adjacent(aar) ==
    \A p, q \in 1..Len(aar) : (p < q /\ aar[p] = aar[q]) =>
        \A m \in p..q : aar[m] = aar[p]

\* the tables of n rows; the known total is the same in every row of a year
MainTables(n) ==
    {[index |-> index, aar |-> aar, total |-> [p \in 1..n |-> T[aar[p]]],
      est |-> est, dtype |-> dtype, nr_naaring |-> nr] :
        index \in RowIndexes(n),
        aar \in {a \in [1..n -> Years] : Adjacent(a)},
        T \in [Years -> Totals],
        est \in [1..n -> Estimates],
        dtype \in Dtypes,
        nr \in BOOLEAN}

InitMain ==
    /\ FinderUnused
    /\ disk = NoRoot
    /\ helpers = "functions"
    /\ self = NewFolderSearcher(<<>>, TRUE, 0, 0)
    /\ gm = GmIdle
    /\ sd = SdIdle
    /\ im = ImIdle
    /\ di = DiIdle
    /\ mf = MfIdle
    /\ ts = TsIdle
    /\ ex = ExIdle
    /\ \E n \in 1..MaxRows : \E df \in MainTables(n) : mp = [MpIdle EXCEPT !.df = df]

NextMain ==
    \/ RoundingErrorDealer
    \/ \E X \in DividerColumns : \E Y \in DividerColumns : Divider(X, Y)

SpecMain == InitMain /\ [][NextMain]_vars

(***************************************************************************)
(* Specification of the calls through input_argument_none_eliminator.      *)
(***************************************************************************)
\* func(df, ...) with the arguments passed as call says
WrappedCall(func, call) ==
    /\ LET r == wrapped_call(func, mp.df, call)
       IN mp' = [mp EXCEPT !.method = func, !.call = call, !.ran = r.ran, !.out = r.out,
                           !.X = total_fee_col, !.Y = estimated_fee_col]
    /\ UNCHANGED <<metaVars, finderVars, im, di, mf, ts, ex>>

WrappedFuncs == {"multiplier", "divider", "proportion_func"}
ArgForms == {"omitted", "None", "kw_None", "value", "kw_value"}
Positional(form) == form \in {"None", "value"}

\* the calls Python accepts: a positional argument follows positional
\* arguments only, and Z is an argument of proportion_func alone
Calls(func) ==
    {c \in [X : ArgForms, Y : ArgForms, Z : ArgForms, new_col : ArgForms] :
        /\ Positional(c.Y) => Positional(c.X)
        /\ IF func = "proportion_func"
           THEN /\ Positional(c.Z) => Positional(c.Y)
                /\ Positional(c.new_col) => Positional(c.Z)
           ELSE /\ c.Z = "omitted"
                /\ Positional(c.new_col) => Positional(c.Y)}

InitWrap ==
    /\ FinderUnused
    /\ disk = NoRoot
    /\ helpers = "functions"
    /\ self = NewFolderSearcher(<<>>, TRUE, 0, 0)
    /\ gm = GmIdle
    /\ sd = SdIdle
    /\ im = ImIdle
    /\ di = DiIdle
    /\ mf = MfIdle
    /\ ts = TsIdle
    /\ ex = ExIdle
    /\ \E df \in {t \in MainTables(1) : t.index = <<0>> /\ t.aar = <<1>> /\ t.nr_naaring} :
          mp = [MpIdle EXCEPT !.df = df]

NextWrap == \E func \in WrappedFuncs : \E call \in Calls(func) : WrappedCall(func, call)

SpecWrap == InitWrap /\ [][NextWrap]_vars

(***************************************************************************)
(* Specification of merge_func.                                            *)
(***************************************************************************)
MergeFunc(has_subset, has_join_on, join_method, fill) ==
    /\ mf' = [mf EXCEPT !.called = TRUE, !.has_subset = has_subset,
                        !.has_join_on = has_join_on, !.join_method = join_method,
                        !.fill = fill,
                        !.out = merge_func(mf.df_l, mf.df_r, has_subset, has_join_on,
                                           join_method, fill)]
    /\ UNCHANGED <<metaVars, finderVars, im, di, mp, ts, ex>>

ProductCodes == {1, 2}
Ytarts == {"a", "b"}
JoinMethods == {"left", "right", "inner", "outer"}

InitMerge ==
    /\ FinderUnused
    /\ disk = NoRoot
    /\ helpers = "functions"
    /\ self = NewFolderSearcher(<<>>, TRUE, 0, 0)
    /\ gm = GmIdle
    /\ sd = SdIdle
    /\ im = ImIdle
    /\ di = DiIdle
    /\ mp = MpIdle
    /\ ts = TsIdle
    /\ ex = ExIdle
    /\ \E df_l \in SeqsOf(ProductCodes, 0, MaxRows - 1) :
       \E df_r \in SeqsOf([produktkode : ProductCodes, ytart : Ytarts], 0, MaxRows - 1) :
          mf = [MfIdle EXCEPT !.df_l = df_l, !.df_r = df_r]

NextMerge ==
    \E has_subset \in BOOLEAN : \E has_join_on \in BOOLEAN :
    \E join_method \in JoinMethods : \E fill \in BOOLEAN :
        MergeFunc(has_subset, has_join_on, join_method, fill)

SpecMerge == InitMerge /\ [][NextMerge]_vars

(***************************************************************************)
(* Specifications of disagg_func_stairs and of aggregation_func.           *)
(***************************************************************************)
DisaggFuncStairs(input_freq, output_freq) ==
    /\ ts' = [ts EXCEPT !.func = "disagg_func_stairs", !.input_freq = input_freq,
                        !.output_freq = output_freq,
                        !.out = disagg_func_stairs(ts.df, input_freq, output_freq)]
    /\ UNCHANGED <<metaVars, finderVars, im, di, mp, mf, ex>>

AggregationFunc(target_freq, aggregation_method, ignore_incomplete) ==
    /\ ts' = [ts EXCEPT !.func = "aggregation_func", !.target_freq = target_freq,
                        !.aggregation_method = aggregation_method,
                        !.ignore_incomplete = ignore_incomplete,
                        !.out = aggregation_func(ts.df, target_freq, aggregation_method,
                                                 ignore_incomplete)]
    /\ UNCHANGED <<metaVars, finderVars, im, di, mp, mf, ex>>

\* the first period of the tables of an index dtype: days from 30 December
\* of year 0, months from November of year 0, quarters from the third
\* quarter of year 0, years from year 0
FirstPeriod(dtype) ==
    IF dtype = "period[M]" THEN 10 ELSE IF dtype = "period[Q-DEC]" THEN 2 ELSE 0

Cells == {NaN, FracOfInt(1), FracOfInt(2)}

\* the tables of n rows: the index strictly increasing within four periods
TsTables(n) ==
    {[kind |-> "DataFrame", dtype |-> dtype, index |-> index, col |-> col] :
        dtype \in Range(allowed_dtypes) \ {"datetime64[ns]"},
        index \in {s \in [1..n -> 0..3] : \A i \in 1..(n - 1) : s[i] < s[i + 1]},
        col \in [1..n -> Cells]}

\* the table as TsTables has it, the index holding the periods themselves
Shifted(t) ==
    [t EXCEPT !.index = [i \in DOMAIN t.index |-> FirstPeriod(t.dtype) + t.index[i]]]

\* a series, and tables with an index that is not of periods
OtherTables ==
    {[kind |-> kind, dtype |-> dtype, index |-> <<0, 1>>, col |-> <<FracOfInt(1), NaN>>] :
        kind \in {"DataFrame", "Series"},
        dtype \in {"datetime64[ns]", "int64", "period[Q-DEC]"}}

InitTs ==
    /\ FinderUnused
    /\ disk = NoRoot
    /\ helpers = "functions"
    /\ self = NewFolderSearcher(<<>>, TRUE, 0, 0)
    /\ gm = GmIdle
    /\ sd = SdIdle
    /\ im = ImIdle
    /\ di = DiIdle
    /\ mp = MpIdle
    /\ mf = MfIdle
    /\ ex = ExIdle
    /\ \/ \E n \in 1..MaxRows : \E t \in TsTables(n) : ts = [TsIdle EXCEPT !.df = Shifted(t)]
       \/ \E t \in OtherTables : ts = [TsIdle EXCEPT !.df = t]

NextDisagg ==
    \E input_freq \in {"Q", "Y"} : \E output_freq \in {"M", "Q"} :
        DisaggFuncStairs(input_freq, output_freq)

SpecDisagg == InitTs /\ [][NextDisagg]_vars

NextAgg ==
    \E target_freq \in {"D", "M", "Q", "Y", "W"} :
    \E aggregation_method \in {"mean", "sum", "median"} :
    \E ignore_incomplete \in BOOLEAN :
        AggregationFunc(target_freq, aggregation_method, ignore_incomplete)

SpecAgg == InitTs /\ [][NextAgg]_vars

(***************************************************************************)
(* Specification of batch_exporter.                                        *)
(***************************************************************************)
BatchExporter ==
    /\ LET r == batch_exporter(ex.df, ex.dirs, ex.files)
       IN ex' = [ex EXCEPT !.called = TRUE, !.before = ex.dirs, !.err = r.err,
                           !.dirs = r.dirs, !.files = r.files]
    /\ UNCHANGED <<metaVars, finderVars, im, di, mp, mf, ts>>

ExportYears == {1, 2}

InitExport ==
    /\ FinderUnused
    /\ disk = NoRoot
    /\ helpers = "functions"
    /\ self = NewFolderSearcher(<<>>, TRUE, 0, 0)
    /\ gm = GmIdle
    /\ sd = SdIdle
    /\ im = ImIdle
    /\ di = DiIdle
    /\ mp = MpIdle
    /\ mf = MfIdle
    /\ ts = TsIdle
    /\ \E df \in SeqsOf([aar : ExportYears, val : {0, 1}], 0, MaxRows) :
       \E dirs \in SUBSET ExportYears :
          ex = [ExIdle EXCEPT !.df = df, !.dirs = dirs]

NextExport == BatchExporter

SpecExport == InitExport /\ [][NextExport]_vars

(***************************************************************************)
(* Claims about DataImporter.                                              *)
(***************************************************************************)
\* the directory keys and, per directory, the filename keys of a folder_dict
KeysOf(folder_dict) ==
    [i \in 1..Len(folder_dict) |->
        [key |-> folder_dict[i].key,
         files |-> [j \in 1..Len(folder_dict[i].val) |-> folder_dict[i].val[j].key]]]

AddedYears == di.method = "add_years" /\ di.err = "none"

\* C14: after add_years every table stored under directory key d has its
\* added year column equal to d, and folder_dict has the same directory
\* keys and filename keys as before the call.
C14_YearIsDirectory ==
    AddedYears =>
        /\ KeysOf(di.folder_dict) = KeysOf(di.before)
        /\ \A i \in 1..Len(di.folder_dict) :
           \A j \in 1..Len(di.folder_dict[i].val) :
              /\ di.folder_dict[i].val[j].val.aar_added = <<di.folder_dict[i].key>>
              /\ aar_added \in Range(di.folder_dict[i].val[j].val.columns)

\* add_years stamped the tables of two directories
C14_Witness ==
    /\ AddedYears
    /\ Len(di.folder_dict) = 2
    /\ \A i \in 1..2 : Len(di.folder_dict[i].val) > 0
    /\ \E i \in 1..2 : \E j \in 1..Len(di.before[i].val) :
          di.before[i].val[j].val.aar_added = <<>>

\* C15: when some directory key of folder_dict is not numeric, add_years
\* emits the message about sub-directory names and raises no exception.
C15_NonNumericKeyMessage ==
    (/\ di.method = "add_years"
     /\ di.err # ErrNoFolderDict
     /\ \E i \in 1..Len(di.before) : ~IntParses(di.before[i].key))
        => /\ di.err = "none"
           /\ MsgNotNumeric \in Range(di.printed)

Categorised == di.method = "categorise_data" /\ di.err # ErrNoFolderDict

\* the keyword is the start of the filename key of some table of folder_dict
Matched(folder_dict, k) ==
    \E i \in 1..Len(folder_dict) : \E j \in 1..Len(folder_dict[i].val) :
        startswith(folder_dict[i].val[j].key, k)

\* every table of folder_dict carries the year stamp of add_years
Stamped(folder_dict) ==
    \A i \in 1..Len(folder_dict) : \A j \in 1..Len(folder_dict[i].val) :
        folder_dict[i].val[j].val.aar_added # <<>>

\* the tables of folder_dict whose filename key starts with k, tagged with it
PartsFor(folder_dict, k) ==
    UNION {{[filename |-> folder_dict[i].val[j].key, table |-> folder_dict[i].val[j].val] :
              j \in {m \in 1..Len(folder_dict[i].val) : startswith(folder_dict[i].val[m].key, k)}} :
           i \in 1..Len(folder_dict)}

\* C16: after categorise_data over year-stamped tables, sorted_dataframes
\* holds under every keyword that matched exactly the tables whose filename
\* key starts with it, tagged with the filename and ordered by year stamp,
\* and holds nothing under a keyword that matched no table.
C16_CategoriesByPrefix ==
    (Categorised /\ Stamped(di.before)) =>
        \A n \in 1..Len(di.dataset_list) :
            LET k == di.dataset_list[n]
            IN IF Matched(di.before, k)
               THEN /\ di.err = "none"
                    /\ di.has_sorted
                    /\ DictHas(di.sorted_dataframes, k)
                    /\ LET parts == DictGet(di.sorted_dataframes, k)
                       IN /\ Range(parts) = PartsFor(di.before, k)
                          /\ Len(parts) = Cardinality(PartsFor(di.before, k))
                          /\ \A a, b \in 1..Len(parts) :
                                a < b => ~YearBefore(parts[b], parts[a])
               ELSE di.err = "none" => ~DictHas(di.sorted_dataframes, k)

\* C17: categorise_data fails with the no-category-match error whenever no
\* keyword of dataset_list is the start of any table's filename key.
C17_NoMatchFails ==
    (Categorised /\ \A n \in 1..Len(di.dataset_list) : ~Matched(di.before, di.dataset_list[n]))
        => di.err = ErrNoCategory

(***************************************************************************)
(* Claims about main_program_functions.                                    *)
(***************************************************************************)
Corrected == mp.method = "rounding_error_dealer" /\ mp.df.nr_naaring

\* the sum of the float64 values of col over the rows 1..n of the year y
RECURSIVE FracSum(_, _, _, _)
FracSum(col, aar, y, n) ==
    IF n = 0 THEN FracOfInt(0)
    ELSE FracAdd(FracSum(col, aar, y, n - 1),
                 IF aar[n] = y THEN col[n] ELSE FracOfInt(0))

\* the known total of the year y minus the sum of the estimates of y
Discrepancy(df, y) ==
    LET p == CHOOSE q \in 1..Len(df.index) : df.aar[q] = y
    IN df.total[p] - group_sum(df, y, Len(df.index))

\* the number of rows of the year y that hold the largest estimate of y
TiedRows(df, y) ==
    Cardinality({p \in 1..Len(df.index) :
                    df.aar[p] = y /\ df.est[p] = group_max(df, y)})

\* C18: after rounding_error_dealer the estimates of every year sum to the
\* known total of that year, for any number of rows tied at the largest
\* estimate and any row labels of the input table.
C18_SumEqualsTotal ==
    Corrected =>
        /\ mp.out.err = "none"
        /\ \A p \in 1..Len(mp.df.index) :
              FracSum(mp.out.est, mp.out.aar, mp.df.aar[p], Len(mp.out.est))
                 = FracOfInt(mp.df.total[p])

\* C19: rounding_error_dealer adds to every row that holds the largest
\* estimate of its year the year's discrepancy divided by the number of
\* such rows, and leaves the estimate of every other row as it was.
C19_OnlyMaxRowsChange ==
    Corrected =>
        /\ mp.out.err = "none"
        /\ Len(mp.out.est) = Len(mp.df.est)
        /\ \A p \in 1..Len(mp.df.index) :
              LET y == mp.df.aar[p]
              IN mp.out.est[p] =
                    IF mp.df.est[p] = group_max(mp.df, y)
                    THEN FracAdd(FracOfInt(mp.df.est[p]),
                                 true_divide(Discrepancy(mp.df, y), TiedRows(mp.df, y)))
                    ELSE FracOfInt(mp.df.est[p])

\* C20: divider(df, X, Y, r) returns a table whose column r is 0 in every
\* row where Y is 0 and X / Y in every other row, and raises no error.
C20_ZeroWhereDivisorZero ==
    mp.method = "divider" =>
        /\ mp.out.err = "none"
        /\ Len(mp.out.r) = Len(mp.df.index)
        /\ \A p \in 1..Len(mp.df.index) :
              LET x == Col(mp.df, mp.X)[p]
                  y == Col(mp.df, mp.Y)[p]
              IN mp.out.r[p] = IF y = 0 THEN FracOfInt(0) ELSE true_divide(x, y)

(***************************************************************************)
(* Claims about input_argument_none_eliminator.                            *)
(***************************************************************************)
\* a required column-name argument of the last wrapped call is unset
SomeArgUnset ==
    /\ mp.method \in WrappedFuncs
    /\ \/ IsNone(mp.call.X)
       \/ IsNone(mp.call.Y)
       \/ IsNone(mp.call.new_col)
       \/ (mp.method = "proportion_func" /\ IsNone(mp.call.Z))

\* C21: multiplier, divider and proportion_func fail with the error about a
\* None argument whenever X, Y, Z (where it applies) or new_col is unset,
\* be it omitted, None positionally or None by keyword, and the wrapped
\* computation is not run.
C21_UnsetArgumentRejected ==
    SomeArgUnset => (mp.out.err = ErrNoneArg /\ ~mp.ran)

(***************************************************************************)
(* Claims about merge_func.                                                *)
(***************************************************************************)
Filled == mf.called /\ mf.out.ret = "merged_df" /\ mf.fill

\* the rows of df_r with the product code of row p of the result
RowsOfCode(p) ==
    {i \in DOMAIN mf.df_r : mf.df_r[i].produktkode = mf.out.merged_df[p].produktkode}

\* C22 as stated: with fill enabled a product code that occurs in several
\* rows of the right table is mapped to the ytart of the first such row.
C22_FirstSeenWins ==
    Filled =>
        \A p \in 1..Len(mf.out.merged_df) : \A i \in RowsOfCode(p) :
            (\A j \in RowsOfCode(p) : i <= j)
                => mf.out.merged_df[p].ytart = mf.df_r[i].ytart

\* C22 amended: with fill enabled a product code that occurs in several
\* rows of the right table is mapped to the ytart of the last such row.
C22_LastSeenWins ==
    Filled =>
        \A p \in 1..Len(mf.out.merged_df) : \A i \in RowsOfCode(p) :
            (\A j \in RowsOfCode(p) : j <= i)
                => mf.out.merged_df[p].ytart = mf.df_r[i].ytart

\* a filled result row whose product code has two rows with different
\* ytart in the right table
C22_Witness ==
    /\ Filled
    /\ \E p \in 1..Len(mf.out.merged_df) : \E i, j \in RowsOfCode(p) :
          mf.df_r[i].ytart # mf.df_r[j].ytart

\* C23: with fill enabled the fill step changes ytart only in the rows for
\* which the join found no partner; a row the join gave a ytart keeps it.
C23_FillOnlyUnmatched ==
    Filled =>
        /\ Len(mf.out.merged_df) = Len(mf.out.joined)
        /\ \A p \in 1..Len(mf.out.joined) :
              mf.out.joined[p].ytart # "NaN"
                 => mf.out.merged_df[p].ytart = mf.out.joined[p].ytart

(***************************************************************************)
(* Claims about disagg_func_stairs and aggregation_func.                   *)
(***************************************************************************)
Contiguous(index) == \A i \in 1..(Len(index) - 1) : index[i + 1] = index[i] + 1

\* the last call disaggregated a table from the frequency of its index to
\* the next finer one
Disaggregated ==
    /\ ts.func = "disagg_func_stairs"
    /\ ts.df.kind = "DataFrame"
    /\ \/ ts.df.dtype = "period[A-DEC]" /\ ts.input_freq = "Y" /\ ts.output_freq = "Q"
       \/ ts.df.dtype = "period[Q-DEC]" /\ ts.input_freq = "Q" /\ ts.output_freq = "M"

\* C24: for a table indexed by a contiguous run of years (quarters),
\* disagg_func_stairs from Y to Q (from Q to M) returns exactly one row for
\* every quarter of every year (month of every quarter) of the input, four
\* to the year and three to the quarter, and each such row has the value of
\* its parent period.
C24_OneRowPerChild ==
    (Disaggregated /\ Contiguous(ts.df.index)) =>
        LET k == ChildrenPer(ts.df.dtype)
            rows == ts.out.rows
        IN /\ ts.out.ret = "df"
           /\ Len(rows) = k * Len(ts.df.index)
           /\ \A p \in DOMAIN ts.df.index : \A c \in 0..(k - 1) :
                 /\ rows[k * (p - 1) + c + 1].period = k * ts.df.index[p] + c
                 /\ rows[k * (p - 1) + c + 1].val = ts.df.col[p]

\* three years in a row disaggregated to twelve quarters, the years with
\* different values
C24_Witness ==
    /\ Disaggregated
    /\ ts.df.dtype = "period[A-DEC]"
    /\ Contiguous(ts.df.index)
    /\ Len(ts.df.index) = 3
    /\ ts.df.col[1] # ts.df.col[2]
    /\ Len(ts.out.rows) = 12

\* how coarse a frequency is: days, months, quarters, years
Coarseness(freq) ==
    IF freq \in {"D", "period[D]"} THEN 1
    ELSE IF freq \in {"M", "period[M]"} THEN 2
    ELSE IF freq \in {"Q", "period[Q-DEC]"} THEN 3
    ELSE 4

\* the last call was aggregation_func on a table with an index of periods
AggCalled ==
    /\ ts.func = "aggregation_func"
    /\ ts.df.kind = "DataFrame"
    /\ ts.df.dtype \in {"period[D]", "period[M]", "period[Q-DEC]", "period[A-DEC]"}

\* the last call returned an aggregated table
Aggregated == AggCalled /\ ts.out.ret = "df"

\* the rows of the input in the period of the target frequency
RowsIn(period) ==
    {p \in DOMAIN ts.df.index :
        asfreq(ts.df.index[p], Coarseness(ts.df.dtype), Coarseness(ts.target_freq)) = period}

\* the sum of the values of the rows P that are not null, which are integers
RECURSIVE IntSum(_)
IntSum(P) ==
    IF P = {} THEN 0
    ELSE LET p == CHOOSE q \in P : TRUE
         IN (IF ts.df.col[p] = NaN THEN 0 ELSE ts.df.col[p].num) + IntSum(P \ {p})

\* the sum or the mean of the values of the rows P that are not null
SumOrMean(P) ==
    LET n == Cardinality({p \in P : ts.df.col[p] # NaN})
    IN IF ts.aggregation_method = "sum" THEN FracOfInt(IntSum(P))
       ELSE IF n = 0 THEN NaN ELSE Frac(IntSum(P), n)

\* C25: with ignore_incomplete true aggregation_func yields, for every
\* period of the target frequency, null if a value of the input inside the
\* period is null and the sum or mean of the values otherwise; with
\* ignore_incomplete false it yields the sum or mean of the values that are
\* not null, and prints a warning exactly when the input holds a null.
C25_IncompletePeriods ==
    Aggregated =>
        /\ \A b \in DOMAIN ts.out.rows :
              LET P == RowsIn(ts.out.rows[b].period)
              IN ts.out.rows[b].val =
                    IF ts.ignore_incomplete /\ \E p \in P : ts.df.col[p] = NaN
                    THEN NaN ELSE SumOrMean(P)
        /\ \A p \in DOMAIN ts.df.index : \E b \in DOMAIN ts.out.rows :
              p \in RowsIn(ts.out.rows[b].period)
        /\ ts.out.printed # <<>> <=> (~ts.ignore_incomplete /\ IsNull(ts.df.col))

\* a sum with ignore_incomplete true where a period holds a null and
\* a value, and is null in the output
C25_Witness ==
    /\ Aggregated
    /\ ts.ignore_incomplete
    /\ ts.aggregation_method = "sum"
    /\ \E b \in DOMAIN ts.out.rows :
          /\ ts.out.rows[b].val = NaN
          /\ \E p, q \in RowsIn(ts.out.rows[b].period) :
                ts.df.col[p] = NaN /\ ts.df.col[q] # NaN

\* C26: aggregation_func aggregates only to a frequency strictly coarser
\* than the one of the index: a target frequency equal to it or finer is
\* rejected with the ordering IndexError and no table is returned.
C26_StrictlyCoarser ==
    (AggCalled /\ ts.target_freq \in {"M", "Q", "Y"}
               /\ ts.aggregation_method \in {"mean", "sum"}) =>
        IF Coarseness(ts.target_freq) > Coarseness(ts.df.dtype)
        THEN ts.out.ret = "df"
        ELSE ts.out.err = ErrOrdering /\ ts.out.ret = "raised" /\ ts.out.rows = <<>>

\* a table of quarters asked to be aggregated to quarters, and rejected
C26_Witness ==
    /\ AggCalled
    /\ ts.df.dtype = "period[Q-DEC]"
    /\ ts.target_freq = "Q"
    /\ ts.aggregation_method = "sum"
    /\ ts.out.err = ErrOrdering

\* C30: aggregation_func rejects every target_freq other than M, Q and Y
\* with the ValueError that names 'M', 'Q' and 'Y', and with no other error.
C30_TargetFreqValueError ==
    (AggCalled /\ ts.target_freq \notin {"M", "Q", "Y"}) =>
        ts.out.err = ErrTargetFreq

(***************************************************************************)
(* Claims about batch_exporter.                                            *)
(***************************************************************************)
\* C27: whichever year directories exist under export_path before the call
\* (none, some or all), batch_exporter creates the missing ones and writes,
\* for every year of the table, exactly the rows of that year to the file
\* of the year.
C27_ExportsEveryYear ==
    ex.called =>
        /\ ex.err = "none"
        /\ \A p \in DOMAIN ex.df :
              /\ ex.df[p].aar \in ex.dirs
              /\ \E f \in ex.files :
                    /\ f.aar = ex.df[p].aar
                    /\ f.rows = rows_of_year(ex.df, ex.df[p].aar)

(***************************************************************************)
(* Further claims about file_batch_importer and categorise_data.           *)
(***************************************************************************)
\* files_for_import of the last call: the files found whose name contains
\* the filetype
FilesForImport ==
    LET HasFiletype(elem) == IsSubstring(im.filetype, elem)
    IN SelectSeq(file_identifier_func(disk, im.folder_path, im.filter_clauses).ret,
                 HasFiletype)

\* C28: every table file_batch_importer returns in a dict is read from the
\* file named by its key, also when the files found are not all of the
\* filetype asked for; in a list the i-th table is read from the i-th file
\* selected for import.
C28_TablesFromTheirFiles ==
    (BatchCalled /\ im.out.err = "none" /\ im.out.kind \in {"dict", "list"}) =>
        IF im.out.kind = "dict"
        THEN \A i \in 1..Len(im.out.ret) :
                im.out.ret[i].val.source = im.folder_path \o <<"/">> \o im.out.ret[i].key
        ELSE /\ Len(im.out.ret) = Len(FilesForImport)
             /\ \A i \in 1..Len(im.out.ret) :
                   im.out.ret[i].source = im.folder_path \o <<"/">> \o FilesForImport[i]

\* C29: if some keyword of dataset_list is the start of the filename key of
\* an imported table, categorise_data ends without error and
\* sorted_dataframes has an entry for exactly the keywords that matched,
\* wherever the matching keywords stand in dataset_list.
C29_MatchAtAnyPosition ==
    (/\ Categorised
     /\ Stamped(di.before)
     /\ \E n \in 1..Len(di.dataset_list) : Matched(di.before, di.dataset_list[n])) =>
        /\ di.err = "none"
        /\ di.has_sorted
        /\ \A n \in 1..Len(di.dataset_list) :
              DictHas(di.sorted_dataframes, di.dataset_list[n])
                 <=> Matched(di.before, di.dataset_list[n])
        /\ \A i \in 1..Len(di.sorted_dataframes) :
              di.sorted_dataframes[i].key \in Range(di.dataset_list)

====
